---- MODULE Spec2Model ----
(***************************************************************************)
(* Model of the domain layer of the Next.js DDD storefront: the value      *)
(* objects ProductCategory and Rating, the entities Product and Review,    *)
(* and the application services ProductService and ReviewService.          *)
(*                                                                         *)
(* JavaScript values are modelled as follows.                              *)
(*   - A string is a sequence of one-character strings.                    *)
(*   - A value in a numeric slot is a record [kind, int, half]: kind is    *)
(*     "num" (the number int, plus one half when half is set), "NaN",      *)
(*     "null" or "undefined".                                              *)
(*   - A Date is a record [valid, ms]; an Invalid Date has valid = FALSE.  *)
(*   - A call that may throw returns [ok, error, value]: ok = FALSE means  *)
(*     the call threw Error(error), and value is then the state the        *)
(*     receiver was left in.                                               *)
(***************************************************************************)
EXTENDS Integers, Sequences, FiniteSets, TLC

VARIABLES
    categoryCall,   \* last `new ProductCategory(value)`: input and outcome
    ratingCall,     \* last `new Rating(value)`: input and outcome
    product,        \* the Product entity under observation
    clock,          \* what `new Date()` reads, in milliseconds
    call,           \* the last call made on Product: operation, arguments, outcome
    review,         \* the Review entity under observation
    reviewCall,     \* the last call made on Review: operation, arguments, outcome
    reviewDb,       \* the reviews in the persistence behind ApiReviewRepository
    reviewSvc,      \* the last ReviewService call: arguments, outcome, effects
    nextReviewId,   \* how many ids crypto.randomUUID() has handed to ReviewService
    eventBus,       \* whether ReviewService was constructed with an EventBus
    productDb,      \* the products in the persistence behind ApiProductRepository
    productSvc,     \* the last ProductService call: arguments, outcome, effects
    repoCall,       \* the last ApiProductRepository call made directly
    httpCall,       \* the last request to /api/products and its response
    authCall,       \* the last request to /api/auth/login and its response
    mockProducts,   \* the list the mock-data ProductService keeps
    mockCall,       \* the last call of the mock-data ProductService or its caller
    routeProducts,  \* the lists of the two route modules' mock-data services
    routeCall,      \* the last request served over the mock-data services
    aggregate,      \* a Product with its reviews: id, _reviews, _updatedAt
    heldReviews,    \* the array a caller got from the product's reviews getter
    aggregateCall,  \* the last call on the product's reviews or on that array
    updates,        \* the updateProduct calls in flight, each at one of its awaits
    registeredUsers, \* mockUsers of /api/auth/register
    registrations   \* the requests to /api/auth/register in flight

vars ==
    <<categoryCall, ratingCall, product, clock, call, review, reviewCall,
      reviewDb, reviewSvc, nextReviewId, eventBus, productDb, productSvc,
      repoCall, httpCall, authCall, mockProducts, mockCall,
      routeProducts, routeCall, aggregate, heldReviews, aggregateCall,
      updates, registeredUsers, registrations>>

\* the variables of each part of the model
valueObjectVars == <<categoryCall, ratingCall>>
productVars == <<product, call>>
reviewVars == <<review, reviewCall>>
reviewServiceVars == <<reviewDb, reviewSvc, nextReviewId, eventBus>>
productServiceVars == <<productDb, productSvc>>
repoVars == <<repoCall>>
httpVars == <<httpCall>>
authVars == <<authCall>>
mockVars == <<mockProducts, mockCall>>
routeVars == <<routeProducts, routeCall>>
aggregateVars == <<aggregate, heldReviews, aggregateCall>>
raceVars == <<updates>>
registerVars == <<registeredUsers, registrations>>
laterVars == <<aggregateVars, raceVars, registerVars>>
outerVars == <<repoVars, httpVars, authVars, mockVars, routeVars>>

----------------------------------------------------------------------------
(* JavaScript numbers *)

Num(n) == [kind |-> "num", int |-> n, half |-> FALSE]
NumHalf(n) == [kind |-> "num", int |-> n, half |-> TRUE]
NaN == [kind |-> "NaN", int |-> 0, half |-> FALSE]
JsNull == [kind |-> "null", int |-> 0, half |-> FALSE]
JsUndefined == [kind |-> "undefined", int |-> 0, half |-> FALSE]

\* ToNumber: null converts to 0, undefined to NaN
ToNumber(x) ==
    CASE x.kind = "null" -> Num(0)
      [] x.kind = "undefined" -> NaN
      [] OTHER -> x

\* twice the numeric value of a "num", so that halves compare as integers
Twice(x) == 2 * x.int + (IF x.half THEN 1 ELSE 0)

\* a < b: false as soon as one side is NaN
JsLt(a, b) ==
    LET x == ToNumber(a)
        y == ToNumber(b)
    IN  x.kind = "num" /\ y.kind = "num" /\ Twice(x) < Twice(y)

\* a > b
JsGt(a, b) == JsLt(b, a)

\* a >= b
JsGe(a, b) ==
    LET x == ToNumber(a)
        y == ToNumber(b)
    IN  x.kind = "num" /\ y.kind = "num" /\ Twice(x) >= Twice(y)

\* truthiness of a value in a numeric slot: 0, NaN, null and undefined are falsy
NumTruthy(x) == x.kind = "num" /\ Twice(x) # 0

\* Number.isInteger
IsInteger(x) == x.kind = "num" /\ ~x.half

\* a === b on numbers: NaN is not equal to itself
StrictEq(a, b) == a.kind # "NaN" /\ b.kind # "NaN" /\ a = b

----------------------------------------------------------------------------
(* JavaScript strings *)

UpperAlphabet ==
    <<"A","B","C","D","E","F","G","H","I","J","K","L","M",
      "N","O","P","Q","R","S","T","U","V","W","X","Y","Z">>
LowerAlphabet ==
    <<"a","b","c","d","e","f","g","h","i","j","k","l","m",
      "n","o","p","q","r","s","t","u","v","w","x","y","z">>

Whitespace == {" ", "\t", "\n"}

LowerChar(c) ==
    IF \E k \in 1..26 : UpperAlphabet[k] = c
    THEN LowerAlphabet[CHOOSE k \in 1..26 : UpperAlphabet[k] = c]
    ELSE c

UpperChar(c) ==
    IF \E k \in 1..26 : LowerAlphabet[k] = c
    THEN UpperAlphabet[CHOOSE k \in 1..26 : LowerAlphabet[k] = c]
    ELSE c

\* String.prototype.toLowerCase
toLowerCase(s) == [i \in 1..Len(s) |-> LowerChar(s[i])]

\* String.prototype.toUpperCase (used only to build inputs)
toUpperCase(s) == [i \in 1..Len(s) |-> UpperChar(s[i])]

\* String.prototype.trim
trim(s) ==
    IF \A i \in 1..Len(s) : s[i] \in Whitespace
    THEN <<>>
    ELSE LET first == CHOOSE i \in 1..Len(s) :
                         /\ s[i] \notin Whitespace
                         /\ \A j \in 1..(i-1) : s[j] \in Whitespace
             last == CHOOSE i \in 1..Len(s) :
                         /\ s[i] \notin Whitespace
                         /\ \A j \in (i+1)..Len(s) : s[j] \in Whitespace
         IN  SubSeq(s, first, last)

\* `!s || s.trim().length === 0`
IsBlank(s) == Len(s) = 0 \/ Len(trim(s)) = 0

----------------------------------------------------------------------------
(* ProductCategory value object *)

electronics == <<"e","l","e","c","t","r","o","n","i","c","s">>
clothing == <<"c","l","o","t","h","i","n","g">>
books == <<"b","o","o","k","s">>
home == <<"h","o","m","e">>
sports == <<"s","p","o","r","t","s">>
toys == <<"t","o","y","s">>
food == <<"f","o","o","d">>
health == <<"h","e","a","l","t","h">>
beauty == <<"b","e","a","u","t","y">>
other == <<"o","t","h","e","r">>

VALID_CATEGORIES ==
    <<electronics, clothing, books, home, sports, toys, food, health, beauty, other>>

\* Array.prototype.includes
Includes(list, x) == \E i \in 1..Len(list) : list[i] = x

NoCategory == [value |-> <<>>]

validateCategory_noLower(category) ==
    IF IsBlank(category)
    THEN [ok |-> FALSE, error |-> "Category cannot be empty"]
    ELSE IF ~Includes(VALID_CATEGORIES, category)
         THEN [ok |-> FALSE, error |-> "Invalid category"]
         ELSE [ok |-> TRUE, error |-> ""]

validateCategory(category) ==
    IF IsBlank(category)
    THEN [ok |-> FALSE, error |-> "Category cannot be empty"]
    ELSE LET normalizedCategory == toLowerCase(category)
         IN  IF ~Includes(VALID_CATEGORIES, normalizedCategory)
             THEN [ok |-> FALSE, error |-> "Invalid category"]
             ELSE [ok |-> TRUE, error |-> ""]

\* new ProductCategory(value)
NewProductCategory(value) ==
    LET v == validateCategory(value)
    IN  IF ~v.ok
        THEN [ok |-> FALSE, error |-> v.error, value |-> NoCategory]
        ELSE [ok |-> TRUE, error |-> "", value |-> [value |-> toLowerCase(value)]]

----------------------------------------------------------------------------
(* Rating value object *)

MIN_RATING == 1
MAX_RATING == 5

NoRating == [value |-> NaN]

validateRating_noIntegerCheck(rating) ==
    IF JsLt(rating, Num(MIN_RATING)) \/ JsGt(rating, Num(MAX_RATING))
    THEN [ok |-> FALSE, error |-> "Rating must be between 1 and 5"]
    ELSE [ok |-> TRUE, error |-> ""]

validateRating_noUpperBound(rating) ==
    IF ~IsInteger(rating)
    THEN [ok |-> FALSE, error |-> "Rating must be an integer"]
    ELSE IF JsLt(rating, Num(MIN_RATING))
         THEN [ok |-> FALSE, error |-> "Rating must be between 1 and 5"]
         ELSE [ok |-> TRUE, error |-> ""]

validateRating(rating) ==
    IF ~IsInteger(rating)
    THEN [ok |-> FALSE, error |-> "Rating must be an integer"]
    ELSE IF JsLt(rating, Num(MIN_RATING)) \/ JsGt(rating, Num(MAX_RATING))
         THEN [ok |-> FALSE, error |-> "Rating must be between 1 and 5"]
         ELSE [ok |-> TRUE, error |-> ""]

\* new Rating(value)
NewRating(value) ==
    LET v == validateRating(value)
    IN  IF ~v.ok
        THEN [ok |-> FALSE, error |-> v.error, value |-> NoRating]
        ELSE [ok |-> TRUE, error |-> "", value |-> [value |-> value]]

\* Rating.equals
RatingEquals(a, b) == StrictEq(a.value, b.value)

----------------------------------------------------------------------------
(* Construction of value objects: inputs and the specification            *)

\* first letter in upper case, as in "Electronics"
Capitalize(s) == [i \in 1..Len(s) |-> IF i = 1 THEN UpperChar(s[i]) ELSE s[i]]

gadgets == <<"g","a","d","g","e","t","s">>

CategoryInputs ==
    {VALID_CATEGORIES[i] : i \in 1..Len(VALID_CATEGORIES)}
    \cup {Capitalize(VALID_CATEGORIES[i]) : i \in 1..Len(VALID_CATEGORIES)}
    \cup {toUpperCase(VALID_CATEGORIES[i]) : i \in 1..Len(VALID_CATEGORIES)}
    \cup {VALID_CATEGORIES[i] \o <<" ">> : i \in 1..Len(VALID_CATEGORIES)}
    \cup {<<>>, <<" ">>, <<" ", "\t">>, gadgets, Capitalize(gadgets),
          SubSeq(electronics, 1, 10), <<" ">> \o books, books \o <<"s">>}

MaxRatingInput == 7

RatingInputs ==
    {Num(n) : n \in -1..MaxRatingInput}
    \cup {NumHalf(n) : n \in 0..MAX_RATING}
    \cup {NaN}

NoResult == [ok |-> FALSE, error |-> "", value |-> NoCategory]
NoRatingResult == [ok |-> FALSE, error |-> "", value |-> NoRating]

InitCategoryCall == [called |-> FALSE, input |-> <<>>, result |-> NoResult]
InitRatingCall ==
    [called |-> FALSE, input |-> NaN, result |-> NoRatingResult,
     hasPrev |-> FALSE, prev |-> NoRating]

\* `new ProductCategory(value)` on some string
ConstructCategory ==
    \E value \in CategoryInputs :
        /\ categoryCall' = [called |-> TRUE, input |-> value,
                            result |-> NewProductCategory(value)]
        /\ UNCHANGED <<ratingCall, clock, productVars, reviewVars, reviewServiceVars, productServiceVars, outerVars, laterVars>>

\* `new Rating(value)` on some number; the Rating constructed before it, if
\* any, is kept to compare the two with equals
ConstructRating ==
    \E value \in RatingInputs :
        /\ ratingCall' =
              [called |-> TRUE, input |-> value, result |-> NewRating(value),
               hasPrev |-> (ratingCall.called /\ ratingCall.result.ok)
                              \/ ratingCall.hasPrev,
               prev |-> IF ratingCall.called /\ ratingCall.result.ok
                        THEN ratingCall.result.value
                        ELSE ratingCall.prev]
        /\ UNCHANGED <<categoryCall, clock, productVars, reviewVars, reviewServiceVars, productServiceVars, outerVars, laterVars>>

----------------------------------------------------------------------------
(* JavaScript dates *)

MaxClock == 2

NewDate(ms) == [valid |-> TRUE, ms |-> ms]
InvalidDate == [valid |-> FALSE, ms |-> 0]

Digits == <<"0","1","2","3","4","5","6","7","8","9">>
IsoPrefix ==
    <<"1","9","7","0","-","0","1","-","0","1","T","0","0",":","0","0",":","0","0",".">>

IsDigit(c) == \E k \in 1..10 : Digits[k] = c
DigitValue(c) == (CHOOSE k \in 1..10 : Digits[k] = c) - 1

\* Date.prototype.toISOString, for dates within the first second of the epoch;
\* throws RangeError on an Invalid Date
toISOString(d) ==
    IF ~d.valid
    THEN [ok |-> FALSE, error |-> "Invalid time value", value |-> <<>>]
    ELSE [ok |-> TRUE, error |-> "",
          value |-> IsoPrefix \o <<Digits[((d.ms \div 100) % 10) + 1],
                                   Digits[((d.ms \div 10) % 10) + 1],
                                   Digits[(d.ms % 10) + 1], "Z">>]

\* new Date(string): an Invalid Date when the string is not a date
ParseDate(s) ==
    IF /\ Len(s) = Len(IsoPrefix) + 4
       /\ SubSeq(s, 1, Len(IsoPrefix)) = IsoPrefix
       /\ \A i \in 1..3 : IsDigit(s[Len(IsoPrefix) + i])
       /\ s[Len(s)] = "Z"
    THEN NewDate(100 * DigitValue(s[Len(IsoPrefix) + 1])
                 + 10 * DigitValue(s[Len(IsoPrefix) + 2])
                 + DigitValue(s[Len(IsoPrefix) + 3]))
    ELSE InvalidDate

----------------------------------------------------------------------------
(* Product entity *)

NoProduct ==
    [exists |-> FALSE, id |-> <<>>, name |-> <<>>, description |-> <<>>,
     price |-> Num(0), category |-> NoCategory, inStock |-> FALSE,
     stockQuantity |-> Num(0), createdAt |-> InvalidDate, updatedAt |-> InvalidDate]

validateProduct(p) ==
    IF Len(p.id) = 0
    THEN [ok |-> FALSE, error |-> "Product ID is required"]
    ELSE IF IsBlank(p.name)
    THEN [ok |-> FALSE, error |-> "Product name cannot be empty"]
    ELSE IF JsLt(p.price, Num(0))
    THEN [ok |-> FALSE, error |-> "Price cannot be negative"]
    ELSE IF JsLt(p.stockQuantity, Num(0))
    THEN [ok |-> FALSE, error |-> "Stock quantity cannot be negative"]
    ELSE [ok |-> TRUE, error |-> ""]

\* new Product(id, name, description, price, category, stockQuantity, createdAt, updatedAt)
ProductConstructor(id, name, description, price, category, stockQuantity, createdAt, updatedAt) ==
    LET p == [exists |-> TRUE, id |-> id, name |-> name, description |-> description,
              price |-> price, category |-> category,
              inStock |-> JsGt(stockQuantity, Num(0)),
              stockQuantity |-> stockQuantity,
              createdAt |-> createdAt, updatedAt |-> updatedAt]
        v == validateProduct(p)
    IN  IF v.ok
        THEN [ok |-> TRUE, error |-> "", value |-> p]
        ELSE [ok |-> FALSE, error |-> v.error, value |-> NoProduct]

\* a parameter default `= d`: taken when the argument is undefined
DefaultTo(x, d) == IF x.kind = "undefined" THEN d ELSE x

\* Product.create(id, name, description, price, category, stockQuantity = 0)
ProductCreate(id, name, description, price, category, stockQuantity, now) ==
    ProductConstructor(id, name, description, price, category,
                       DefaultTo(stockQuantity, Num(0)), NewDate(now), NewDate(now))

\* Product.fromPrimitives(data)
fromPrimitives(data, now) ==
    LET c == NewProductCategory(data.category)
    IN  IF ~c.ok
        THEN [ok |-> FALSE, error |-> c.error, value |-> NoProduct]
        ELSE ProductConstructor(
                 data.id, data.name, data.description, data.price, c.value,
                 IF NumTruthy(data.stockQuantity) THEN data.stockQuantity ELSE Num(0),
                 IF Len(data.createdAt) > 0 THEN ParseDate(data.createdAt) ELSE NewDate(now),
                 IF Len(data.updatedAt) > 0 THEN ParseDate(data.updatedAt) ELSE NewDate(now))

NoPrimitives ==
    [id |-> <<>>, name |-> <<>>, description |-> <<>>, price |-> Num(0),
     category |-> <<>>, inStock |-> FALSE, stockQuantity |-> Num(0),
     createdAt |-> <<>>, updatedAt |-> <<>>]

\* Product.toPrimitives()
toPrimitives(p) ==
    LET c == toISOString(p.createdAt)
        u == toISOString(p.updatedAt)
    IN  IF ~c.ok THEN [ok |-> FALSE, error |-> c.error, value |-> NoPrimitives]
        ELSE IF ~u.ok THEN [ok |-> FALSE, error |-> u.error, value |-> NoPrimitives]
        ELSE [ok |-> TRUE, error |-> "",
              value |-> [id |-> p.id, name |-> p.name, description |-> p.description,
                         price |-> p.price, category |-> p.category.value,
                         inStock |-> p.inStock, stockQuantity |-> p.stockQuantity,
                         createdAt |-> c.value, updatedAt |-> u.value]]

updateStock_keepInStock(p, quantity, now) ==
    IF JsLt(quantity, Num(0))
    THEN [ok |-> FALSE, error |-> "Stock quantity cannot be negative", value |-> p]
    ELSE [ok |-> TRUE, error |-> "",
          value |-> [p EXCEPT !.stockQuantity = quantity,
                              !.updatedAt = NewDate(now)]]

updateStock_assignFirst(p, quantity, now) ==
    LET q == [p EXCEPT !.stockQuantity = quantity,
                       !.inStock = JsGt(quantity, Num(0)),
                       !.updatedAt = NewDate(now)]
    IN  IF JsLt(quantity, Num(0))
        THEN [ok |-> FALSE, error |-> "Stock quantity cannot be negative", value |-> q]
        ELSE [ok |-> TRUE, error |-> "", value |-> q]

\* Product.updateStock(quantity)
updateStock(p, quantity, now) ==
    IF JsLt(quantity, Num(0))
    THEN [ok |-> FALSE, error |-> "Stock quantity cannot be negative", value |-> p]
    ELSE [ok |-> TRUE, error |-> "",
          value |-> [p EXCEPT !.stockQuantity = quantity,
                              !.inStock = JsGt(quantity, Num(0)),
                              !.updatedAt = NewDate(now)]]

updatePrice_noCheck(p, price, now) ==
    [ok |-> TRUE, error |-> "",
     value |-> [p EXCEPT !.price = price, !.updatedAt = NewDate(now)]]

\* Product.updatePrice(price)
updatePrice(p, price, now) ==
    IF JsLt(price, Num(0))
    THEN [ok |-> FALSE, error |-> "Price cannot be negative", value |-> p]
    ELSE [ok |-> TRUE, error |-> "",
          value |-> [p EXCEPT !.price = price, !.updatedAt = NewDate(now)]]

\* Product.updateDetails(name, description, category)
updateDetails(p, name, description, category, now) ==
    IF IsBlank(name)
    THEN [ok |-> FALSE, error |-> "Product name cannot be empty", value |-> p]
    ELSE [ok |-> TRUE, error |-> "",
          value |-> [p EXCEPT !.name = name, !.description = description,
                              !.category = category, !.updatedAt = NewDate(now)]]

----------------------------------------------------------------------------
(* The life of one Product: inputs and actions                             *)

Phone == <<"P","h","o","n","e">>
Laptop == <<"L","a","p","t","o","p">>

IdInputs == {<<>>, <<"1">>}
NameInputs == {<<>>, <<" ">>, Phone, Laptop}
DescriptionInputs == {<<>>, <<"d">>}
NumberInputs == {Num(-1), Num(0), Num(5), NaN}
OptionalNumberInputs == NumberInputs \cup {JsUndefined}
CategoryObjects == {[value |-> electronics], [value |-> books]}
CategoryStringInputs == {electronics, Capitalize(books), gadgets, <<>>}
DateStringInputs == {<<>>, toISOString(NewDate(1)).value, <<"x">>}

NoArgs ==
    [id |-> <<>>, name |-> <<>>, description |-> <<>>, price |-> JsUndefined,
     category |-> <<>>, stockQuantity |-> JsUndefined,
     createdAt |-> <<>>, updatedAt |-> <<>>]

NoCall == [op |-> "none", threw |-> FALSE, error |-> "", args |-> NoArgs, before |-> NoProduct]

\* the record of a call `op(args)` with outcome r made on the product `before`
Called(op, args, r, before) ==
    [op |-> op, threw |-> ~r.ok, error |-> r.error, args |-> args, before |-> before]

\* time passes
Tick ==
    /\ clock < MaxClock
    /\ clock' = clock + 1
    /\ UNCHANGED <<valueObjectVars, productVars, reviewVars, reviewServiceVars, productServiceVars, outerVars, laterVars>>

\* Product.create(...), which is `new Product(...)` with the dates defaulted;
\* the product is constructed once, at any time
Create ==
    /\ ~product.exists /\ call.op = "none"
    /\ \E id \in IdInputs, name \in NameInputs, description \in DescriptionInputs,
          price \in NumberInputs, category \in CategoryObjects,
          stockQuantity \in OptionalNumberInputs :
          LET r == ProductCreate(id, name, description, price, category,
                                 stockQuantity, clock)
              args == [NoArgs EXCEPT !.id = id, !.name = name,
                          !.description = description, !.price = price,
                          !.category = category.value,
                          !.stockQuantity = stockQuantity]
          IN  /\ product' = IF r.ok THEN r.value ELSE product
              /\ call' = Called("create", args, r, product)
    /\ UNCHANGED <<clock, valueObjectVars, reviewVars, reviewServiceVars, productServiceVars, outerVars, laterVars>>

\* Product.fromPrimitives(data) on a plain record
FromPrimitives ==
    /\ ~product.exists /\ call.op = "none"
    /\ \E id \in IdInputs, name \in NameInputs, description \in DescriptionInputs,
          price \in NumberInputs, category \in CategoryStringInputs,
          stockQuantity \in OptionalNumberInputs,
          createdAt \in DateStringInputs, updatedAt \in DateStringInputs :
          LET args == [id |-> id, name |-> name, description |-> description,
                       price |-> price, category |-> category,
                       stockQuantity |-> stockQuantity,
                       createdAt |-> createdAt, updatedAt |-> updatedAt]
              r == fromPrimitives(args, clock)
          IN  /\ product' = IF r.ok THEN r.value ELSE product
              /\ call' = Called("fromPrimitives", args, r, product)
    /\ UNCHANGED <<clock, valueObjectVars, reviewVars, reviewServiceVars, productServiceVars, outerVars, laterVars>>

UpdateStock ==
    /\ product.exists
    /\ \E quantity \in NumberInputs :
          LET r == updateStock(product, quantity, clock)
          IN  /\ product' = r.value
              /\ call' = Called("updateStock", [NoArgs EXCEPT !.stockQuantity = quantity],
                                r, product)
    /\ UNCHANGED <<clock, valueObjectVars, reviewVars, reviewServiceVars, productServiceVars, outerVars, laterVars>>

UpdatePrice ==
    /\ product.exists
    /\ \E price \in NumberInputs :
          LET r == updatePrice(product, price, clock)
          IN  /\ product' = r.value
              /\ call' = Called("updatePrice", [NoArgs EXCEPT !.price = price],
                                r, product)
    /\ UNCHANGED <<clock, valueObjectVars, reviewVars, reviewServiceVars, productServiceVars, outerVars, laterVars>>

UpdateDetails ==
    /\ product.exists
    /\ \E name \in NameInputs, description \in DescriptionInputs,
          category \in CategoryObjects :
          LET r == updateDetails(product, name, description, category, clock)
          IN  /\ product' = r.value
              /\ call' = Called("updateDetails",
                                [NoArgs EXCEPT !.name = name,
                                    !.description = description,
                                    !.category = category.value],
                                r, product)
    /\ UNCHANGED <<clock, valueObjectVars, reviewVars, reviewServiceVars, productServiceVars, outerVars, laterVars>>

----------------------------------------------------------------------------
(* Review entity *)

MAX_COMMENT_LENGTH == 1000
MAX_AUTHOR_NAME_LENGTH == 100

NoReview ==
    [exists |-> FALSE, id |-> <<>>, productId |-> <<>>, rating |-> NoRating,
     comment |-> <<>>, authorName |-> <<>>,
     createdAt |-> InvalidDate, updatedAt |-> InvalidDate]

\* Review.validateComment
validateComment(comment) ==
    IF IsBlank(comment)
    THEN [ok |-> FALSE, error |-> "Comment cannot be empty"]
    ELSE IF Len(comment) > MAX_COMMENT_LENGTH
    THEN [ok |-> FALSE, error |-> "Comment cannot exceed 1000 characters"]
    ELSE [ok |-> TRUE, error |-> ""]

\* Review.validateAuthorName
validateAuthorName(authorName) ==
    IF IsBlank(authorName)
    THEN [ok |-> FALSE, error |-> "Author name cannot be empty"]
    ELSE IF Len(authorName) > MAX_AUTHOR_NAME_LENGTH
    THEN [ok |-> FALSE, error |-> "Author name cannot exceed 100 characters"]
    ELSE [ok |-> TRUE, error |-> ""]

\* Review.validateReview
validateReview(r) ==
    IF Len(r.id) = 0
    THEN [ok |-> FALSE, error |-> "Review ID is required"]
    ELSE IF Len(r.productId) = 0
    THEN [ok |-> FALSE, error |-> "Product ID is required"]
    ELSE IF ~validateComment(r.comment).ok
    THEN validateComment(r.comment)
    ELSE validateAuthorName(r.authorName)

\* new Review(id, productId, rating, comment, authorName, createdAt, updatedAt)
ReviewConstructor(id, productId, rating, comment, authorName, createdAt, updatedAt) ==
    LET r == [exists |-> TRUE, id |-> id, productId |-> productId, rating |-> rating,
              comment |-> comment, authorName |-> authorName,
              createdAt |-> createdAt, updatedAt |-> updatedAt]
        v == validateReview(r)
    IN  IF v.ok
        THEN [ok |-> TRUE, error |-> "", value |-> r]
        ELSE [ok |-> FALSE, error |-> v.error, value |-> NoReview]

\* Review.create(id, productId, rating, comment, authorName)
ReviewCreate(id, productId, rating, comment, authorName, now) ==
    LET rt == NewRating(rating)
    IN  IF ~rt.ok
        THEN [ok |-> FALSE, error |-> rt.error, value |-> NoReview]
        ELSE ReviewConstructor(id, productId, rt.value, comment, authorName,
                               NewDate(now), NewDate(now))

\* Review.fromPrimitives(data)
ReviewFromPrimitives(data, now) ==
    LET rt == NewRating(data.rating)
    IN  IF ~rt.ok
        THEN [ok |-> FALSE, error |-> rt.error, value |-> NoReview]
        ELSE ReviewConstructor(
                 data.id, data.productId, rt.value, data.comment, data.authorName,
                 IF Len(data.createdAt) > 0 THEN ParseDate(data.createdAt) ELSE NewDate(now),
                 IF Len(data.updatedAt) > 0 THEN ParseDate(data.updatedAt) ELSE NewDate(now))

NoReviewPrimitives ==
    [id |-> <<>>, productId |-> <<>>, rating |-> NaN, comment |-> <<>>,
     authorName |-> <<>>, createdAt |-> <<>>, updatedAt |-> <<>>]

\* Review.toPrimitives()
ReviewToPrimitives(r) ==
    LET c == toISOString(r.createdAt)
        u == toISOString(r.updatedAt)
    IN  IF ~c.ok THEN [ok |-> FALSE, error |-> c.error, value |-> NoReviewPrimitives]
        ELSE IF ~u.ok THEN [ok |-> FALSE, error |-> u.error, value |-> NoReviewPrimitives]
        ELSE [ok |-> TRUE, error |-> "",
              value |-> [id |-> r.id, productId |-> r.productId,
                         rating |-> r.rating.value, comment |-> r.comment,
                         authorName |-> r.authorName,
                         createdAt |-> c.value, updatedAt |-> u.value]]

updateComment_noValidate(r, comment, now) ==
    [ok |-> TRUE, error |-> "",
     value |-> [r EXCEPT !.comment = comment, !.updatedAt = NewDate(now)]]

\* Review.updateComment(comment)
updateComment(r, comment, now) ==
    LET v == validateComment(comment)
    IN  IF ~v.ok
        THEN [ok |-> FALSE, error |-> v.error, value |-> r]
        ELSE [ok |-> TRUE, error |-> "",
              value |-> [r EXCEPT !.comment = comment, !.updatedAt = NewDate(now)]]

\* Review.updateRating(rating), rating a Rating
updateRating(r, rating, now) ==
    [ok |-> TRUE, error |-> "",
     value |-> [r EXCEPT !.rating = rating, !.updatedAt = NewDate(now)]]

----------------------------------------------------------------------------
(* The life of one Review: inputs and actions                              *)

\* the string of n characters c
Repeat(c, n) == [i \in 1..n |-> c]

Great == <<"G","r","e","a","t","!">>
John == <<"J","o","h","n">>

ReviewIdInputs == {<<>>, <<"r">>}
ProductIdInputs == {<<>>, <<"1">>}
CommentInputs ==
    {<<>>, <<" ", " ">>, Great, Repeat("a", MAX_COMMENT_LENGTH),
     Repeat("a", MAX_COMMENT_LENGTH + 1), Repeat(" ", MAX_COMMENT_LENGTH + 1)}
AuthorNameInputs ==
    {<<>>, <<"\t">>, John, Repeat("b", MAX_AUTHOR_NAME_LENGTH),
     Repeat("b", MAX_AUTHOR_NAME_LENGTH + 1)}
ReviewRatingInputs == {Num(0), Num(1), Num(4), Num(5), Num(6), Num(7), NumHalf(3), NaN}

NoReviewArgs ==
    [id |-> <<>>, productId |-> <<>>, rating |-> JsUndefined, comment |-> <<>>,
     authorName |-> <<>>, createdAt |-> <<>>, updatedAt |-> <<>>]

NoReviewCall ==
    [op |-> "none", threw |-> FALSE, error |-> "", args |-> NoReviewArgs,
     before |-> NoReview]

\* Review.create(...); the review is constructed once, at any time
CreateReviewEntity ==
    /\ ~review.exists /\ reviewCall.op = "none"
    /\ \E id \in ReviewIdInputs, productId \in ProductIdInputs,
          rating \in ReviewRatingInputs, comment \in CommentInputs,
          authorName \in AuthorNameInputs :
          LET r == ReviewCreate(id, productId, rating, comment, authorName, clock)
              args == [NoReviewArgs EXCEPT !.id = id, !.productId = productId,
                          !.rating = rating, !.comment = comment,
                          !.authorName = authorName]
          IN  /\ review' = IF r.ok THEN r.value ELSE review
              /\ reviewCall' = Called("create", args, r, review)
    /\ UNCHANGED <<clock, valueObjectVars, productVars, reviewServiceVars, productServiceVars, outerVars, laterVars>>

\* Review.fromPrimitives(data) on a plain record
ReviewEntityFromPrimitives ==
    /\ ~review.exists /\ reviewCall.op = "none"
    /\ \E id \in ReviewIdInputs, productId \in ProductIdInputs,
          rating \in ReviewRatingInputs, comment \in CommentInputs,
          authorName \in AuthorNameInputs, updatedAt \in DateStringInputs :
          LET args == [id |-> id, productId |-> productId, rating |-> rating,
                       comment |-> comment, authorName |-> authorName,
                       createdAt |-> <<>>, updatedAt |-> updatedAt]
              r == ReviewFromPrimitives(args, clock)
          IN  /\ review' = IF r.ok THEN r.value ELSE review
              /\ reviewCall' = Called("fromPrimitives", args, r, review)
    /\ UNCHANGED <<clock, valueObjectVars, productVars, reviewServiceVars, productServiceVars, outerVars, laterVars>>

UpdateComment ==
    /\ review.exists
    /\ \E comment \in CommentInputs :
          LET r == updateComment(review, comment, clock)
          IN  /\ review' = r.value
              /\ reviewCall' = Called("updateComment",
                                      [NoReviewArgs EXCEPT !.comment = comment],
                                      r, review)
    /\ UNCHANGED <<clock, valueObjectVars, productVars, reviewServiceVars, productServiceVars, outerVars, laterVars>>

\* review.updateRating(new Rating(value)): the argument is constructed first
\* and the review is reached only when that succeeded
UpdateRating ==
    /\ review.exists
    /\ \E value \in ReviewRatingInputs :
          LET rt == NewRating(value)
              r == IF rt.ok
                   THEN updateRating(review, rt.value, clock)
                   ELSE [ok |-> FALSE, error |-> rt.error, value |-> review]
          IN  /\ review' = r.value
              /\ reviewCall' = Called("updateRating",
                                      [NoReviewArgs EXCEPT !.rating = value],
                                      r, review)
    /\ UNCHANGED <<clock, valueObjectVars, productVars, reviewServiceVars, productServiceVars, outerVars, laterVars>>

----------------------------------------------------------------------------
(* ApiReviewRepository and the remote API it talks to                      *)
(*                                                                         *)
(* The remote API keeps one JSON document per review id.  A fetch either   *)
(* reaches it or fails (transport error or 5xx answer), in which case the  *)
(* API is left as it was.                                                  *)

MaxReviews == 1

\* an optional string field of a DTO
Absent == [has |-> FALSE, s |-> <<>>]
Present(s) == [has |-> TRUE, s |-> s]

\* crypto.randomUUID(): the n-th identifier handed out
Uuid(n) == <<"u", Digits[n + 1]>>
Uuids == {Uuid(n) : n \in 1..MaxReviews}

\* JSON.stringify of a number: NaN is written as null
JsonNumber(x) == IF x.kind = "NaN" THEN JsNull ELSE x

\* JSON.stringify(review.toPrimitives()), as the API stores it
ReviewJson(data) == [data EXCEPT !.rating = JsonNumber(@)]

InDb(db, id) == id \in DOMAIN db /\ db[id].id = id

\* ApiReviewRepository.findById: null (NoReview) on 404 and on every failure
ReviewRepoFindById(db, id, fetchFails, now) ==
    IF fetchFails \/ ~InDb(db, id)
    THEN NoReview
    ELSE LET r == ReviewFromPrimitives(db[id], now)
         IN  IF r.ok THEN r.value ELSE NoReview

\* ApiReviewRepository.save: PUT when findById finds the review, else POST
ReviewRepoSave(db, r, lookupFails, writeFails, now) ==
    LET method == IF ReviewRepoFindById(db, r.id, lookupFails, now).exists
                  THEN "PUT" ELSE "POST"
        body == ReviewToPrimitives(r)
    IN  IF ~body.ok
        THEN [ok |-> FALSE, error |-> body.error, db |-> db, requests |-> <<>>]
        ELSE IF writeFails \/ (method = "PUT" /\ ~InDb(db, r.id))
        THEN [ok |-> FALSE, error |-> "Failed to save review", db |-> db,
              requests |-> <<method>>]
        ELSE [ok |-> TRUE, error |-> "",
              db |-> [db EXCEPT ![r.id] = ReviewJson(body.value)],
              requests |-> <<method>>]

\* ApiReviewRepository.delete
ReviewRepoDelete(db, id, writeFails) ==
    IF writeFails \/ ~InDb(db, id)
    THEN [ok |-> FALSE, error |-> "Failed to delete review", db |-> db,
          requests |-> <<"DELETE">>]
    ELSE [ok |-> TRUE, error |-> "",
          db |-> [db EXCEPT ![id] = NoReviewPrimitives],
          requests |-> <<"DELETE">>]

----------------------------------------------------------------------------
(* ReviewService *)

\* which of the steps of a call fail: the service's findById, the findById
\* inside save, the write (PUT, POST or DELETE) and the publication; nothing
\* is fetched after a failed findById and nothing published after a failed write
NoFailure == [find |-> FALSE, lookup |-> FALSE, write |-> FALSE, publish |-> FALSE]
Failures ==
    {f \in [find : BOOLEAN, lookup : BOOLEAN, write : BOOLEAN, publish : BOOLEAN] :
        /\ f.find => ~(f.lookup \/ f.write \/ f.publish)
        /\ f.write => ~f.publish}

NoReviewDto ==
    [productId |-> <<>>, rating |-> JsUndefined, comment |-> Absent,
     authorName |-> <<>>]

\* the outcome of a ReviewService call: whether it threw, what it returned
\* (returned.id empty: null or false), the API afterwards, the entity it
\* worked on before and after its mutators, the HTTP writes it issued and
\* the events it published
NoOutcome ==
    [threw |-> FALSE, error |-> "", found |-> FALSE,
     returned |-> NoReviewPrimitives, db |-> <<>>,
     entityBefore |-> NoReview, entityAfter |-> NoReview,
     requests |-> <<>>, published |-> <<>>]

Threw(o, error) == [o EXCEPT !.threw = TRUE, !.error = error]

\* the end of createReview and updateReview, were the event published before
\* the answer of save is looked at
AfterSave_publishesFirst(o, s, r, event, hasEventBus, fail) ==
    IF ~s.ok
    THEN Threw([o EXCEPT !.db = s.db, !.requests = s.requests,
                         !.published = IF hasEventBus THEN <<event>> ELSE <<>>],
               s.error)
    ELSE IF hasEventBus /\ fail.publish
    THEN Threw([o EXCEPT !.db = s.db, !.requests = s.requests], "publish failed")
    ELSE [o EXCEPT !.db = s.db, !.requests = s.requests,
                   !.published = IF hasEventBus THEN <<event>> ELSE <<>>,
                   !.returned = ReviewToPrimitives(r).value]

\* the end of createReview and updateReview, once save has answered with s:
\* publish when an event bus is set, and return the DTO
AfterSave(o, s, r, event, hasEventBus, fail) ==
    IF ~s.ok
    THEN Threw([o EXCEPT !.db = s.db, !.requests = s.requests], s.error)
    ELSE IF hasEventBus /\ fail.publish
    THEN Threw([o EXCEPT !.db = s.db, !.requests = s.requests], "publish failed")
    ELSE [o EXCEPT !.db = s.db, !.requests = s.requests,
                   !.published = IF hasEventBus THEN <<event>> ELSE <<>>,
                   !.returned = ReviewToPrimitives(r).value]

\* the tail shared by createReview and updateReview: save, publish, return
SaveAndPublish(o, db, r, event, hasEventBus, fail, now) ==
    AfterSave(o, ReviewRepoSave(db, r, fail.lookup, fail.write, now), r, event,
              hasEventBus, fail)

\* createReview once Review.create has answered with c
createReview_created(db, c, hasEventBus, fail, now) ==
    IF ~c.ok THEN Threw([NoOutcome EXCEPT !.db = db], c.error)
    ELSE SaveAndPublish([NoOutcome EXCEPT !.db = db, !.entityAfter = c.value],
                        db, c.value, "review.created", hasEventBus, fail, now)

\* ReviewService.createReview(reviewDto)
createReview(db, dto, uuid, hasEventBus, fail, now) ==
    createReview_created(db,
        ReviewCreate(uuid, dto.productId, dto.rating, dto.comment.s,
                     dto.authorName, now),
        hasEventBus, fail, now)

\* a call that has found its review
FoundReview(db, existingReview) ==
    [NoOutcome EXCEPT !.db = db, !.found = TRUE, !.entityBefore = existingReview,
                      !.entityAfter = existingReview]

\* updateReview once `new Rating(reviewDto.rating)` has answered with rt
updateReview_rated(db, found, r, rt, hasEventBus, fail, now) ==
    IF ~rt.ok THEN Threw(found, rt.error)
    ELSE SaveAndPublish(
             [found EXCEPT !.entityAfter = updateRating(r, rt.value, now).value],
             db, updateRating(r, rt.value, now).value,
             "review.updated", hasEventBus, fail, now)

\* updateReview once the comment step has answered with c
updateReview_commented(db, dto, found, c, hasEventBus, fail, now) ==
    IF ~c.ok THEN Threw(found, c.error)
    ELSE IF dto.rating.kind # "undefined"
    THEN updateReview_rated(db, [found EXCEPT !.entityAfter = c.value], c.value,
                            NewRating(dto.rating), hasEventBus, fail, now)
    ELSE SaveAndPublish([found EXCEPT !.entityAfter = c.value], db, c.value,
                        "review.updated", hasEventBus, fail, now)

\* updateReview once findById has answered with existingReview
updateReview_found(db, dto, existingReview, hasEventBus, fail, now) ==
    IF ~existingReview.exists THEN [NoOutcome EXCEPT !.db = db]
    ELSE updateReview_commented(db, dto, FoundReview(db, existingReview),
             IF dto.comment.has
             THEN updateComment(existingReview, dto.comment.s, now)
             ELSE [ok |-> TRUE, error |-> "", value |-> existingReview],
             hasEventBus, fail, now)

\* ReviewService.updateReview(id, reviewDto)
updateReview(db, id, dto, hasEventBus, fail, now) ==
    updateReview_found(db, dto, ReviewRepoFindById(db, id, fail.find, now),
                       hasEventBus, fail, now)

\* deleteReview once delete has answered with d; true is returned as the id
\* of the review
deleteReview_deleted(id, found, d, hasEventBus, fail) ==
    IF ~d.ok
    THEN Threw([found EXCEPT !.db = d.db, !.requests = d.requests], d.error)
    ELSE IF hasEventBus /\ fail.publish
    THEN Threw([found EXCEPT !.db = d.db, !.requests = d.requests], "publish failed")
    ELSE [found EXCEPT !.db = d.db, !.requests = d.requests,
                       !.published = IF hasEventBus THEN <<"review.deleted">>
                                     ELSE <<>>,
                       !.returned = [NoReviewPrimitives EXCEPT !.id = id]]

\* deleteReview once findById has answered with existingReview
deleteReview_found(db, id, existingReview, hasEventBus, fail) ==
    IF ~existingReview.exists THEN [NoOutcome EXCEPT !.db = db]
    ELSE deleteReview_deleted(id, FoundReview(db, existingReview),
                              ReviewRepoDelete(db, id, fail.write), hasEventBus, fail)

\* ReviewService.deleteReview(id)
deleteReview(db, id, hasEventBus, fail, now) ==
    deleteReview_found(db, id, ReviewRepoFindById(db, id, fail.find, now),
                       hasEventBus, fail)

----------------------------------------------------------------------------
(* ReviewService at work: inputs and actions                               *)

Fine == <<"F","i","n","e">>

CreateReviewDtos ==
    [productId : {<<"1">>}, rating : {Num(4), Num(7)},
     comment : {Present(<<>>), Present(Great)}, authorName : {John}]

UpdateReviewDtos ==
    {d \in [productId : {<<>>}, rating : {JsUndefined, Num(5), Num(7)},
            comment : {Absent, Present(<<>>), Present(Fine)}, authorName : {<<>>}] :
        d.rating = Num(5) => ~d.comment.has}

ReviewIdArgs == Uuids \cup {<<"x">>}

NoReviewSvc ==
    [op |-> "none", id |-> <<>>, dto |-> NoReviewDto, fail |-> NoFailure,
     dbBefore |-> <<>>, outcome |-> NoOutcome]

InitReviewDb == [u \in Uuids |-> NoReviewPrimitives]

\* a request handled by ReviewService.createReview
CreateReview ==
    /\ nextReviewId < MaxReviews
    /\ \E dto \in CreateReviewDtos, fail \in {f \in Failures : ~f.find} :
          LET uuid == Uuid(nextReviewId + 1)
              o == createReview(reviewDb, dto, uuid, eventBus, fail, clock)
          IN  /\ reviewDb' = o.db
              /\ reviewSvc' = [op |-> "createReview", id |-> uuid, dto |-> dto,
                               fail |-> fail, dbBefore |-> reviewDb, outcome |-> o]
    /\ nextReviewId' = nextReviewId + 1
    /\ UNCHANGED <<clock, eventBus, valueObjectVars, productVars, reviewVars, productServiceVars, outerVars, laterVars>>

\* a request handled by ReviewService.updateReview
UpdateReview ==
    /\ \E id \in ReviewIdArgs, dto \in UpdateReviewDtos, fail \in Failures :
          LET o == updateReview(reviewDb, id, dto, eventBus, fail, clock)
          IN  /\ reviewDb' = o.db
              /\ reviewSvc' = [op |-> "updateReview", id |-> id, dto |-> dto,
                               fail |-> fail, dbBefore |-> reviewDb, outcome |-> o]
    /\ UNCHANGED <<clock, nextReviewId, eventBus, valueObjectVars, productVars, reviewVars, productServiceVars, outerVars, laterVars>>

\* a request handled by ReviewService.deleteReview
DeleteReview ==
    /\ \E id \in ReviewIdArgs, fail \in {f \in Failures : ~f.lookup} :
          LET o == deleteReview(reviewDb, id, eventBus, fail, clock)
          IN  /\ reviewDb' = o.db
              /\ reviewSvc' = [op |-> "deleteReview", id |-> id, dto |-> NoReviewDto,
                               fail |-> fail, dbBefore |-> reviewDb, outcome |-> o]
    /\ UNCHANGED <<clock, nextReviewId, eventBus, valueObjectVars, productVars, reviewVars, productServiceVars, outerVars, laterVars>>

----------------------------------------------------------------------------
(* ApiProductRepository and the remote API it talks to                     *)
(*                                                                         *)
(* The remote API keeps one JSON document per product id.  A fetch either  *)
(* reaches it or fails (transport error or 5xx answer), in which case the  *)
(* API is left as it was.                                                  *)

\* JSON.stringify(product.toPrimitives()), as the API stores it
ProductJson(data) ==
    [data EXCEPT !.price = JsonNumber(@), !.stockQuantity = JsonNumber(@)]

\* ApiProductRepository.findById: null (NoProduct) on 404 and on every failure
ProductRepoFindById(db, id, fetchFails, now) ==
    IF fetchFails \/ ~InDb(db, id)
    THEN NoProduct
    ELSE LET r == fromPrimitives(db[id], now)
         IN  IF r.ok THEN r.value ELSE NoProduct

\* ApiProductRepository.save: PUT when findById finds the product, else POST
ProductRepoSave(db, p, lookupFails, writeFails, now) ==
    LET method == IF ProductRepoFindById(db, p.id, lookupFails, now).exists
                  THEN "PUT" ELSE "POST"
        body == toPrimitives(p)
    IN  IF ~body.ok
        THEN [ok |-> FALSE, error |-> body.error, db |-> db, requests |-> <<>>]
        ELSE IF writeFails \/ (method = "PUT" /\ ~InDb(db, p.id))
        THEN [ok |-> FALSE, error |-> "Failed to save product", db |-> db,
              requests |-> <<method>>]
        ELSE [ok |-> TRUE, error |-> "",
              db |-> [db EXCEPT ![p.id] = ProductJson(body.value)],
              requests |-> <<method>>]

\* ApiProductRepository.delete: the DELETE request and, unless it is
\* answered OK, the error thrown
ProductRepoDelete(db, id, writeFails) ==
    IF writeFails \/ ~InDb(db, id)
    THEN [ok |-> FALSE, error |-> "Failed to delete product", db |-> db,
          requests |-> <<"DELETE">>]
    ELSE [ok |-> TRUE, error |-> "",
          db |-> [db EXCEPT ![id] = NoPrimitives],
          requests |-> <<"DELETE">>]

MaxCreated == 1

\* crypto.randomUUID() in ProductService.createProduct
ProductUuids == {Uuid(n) : n \in 1..MaxCreated}

\* crypto.randomUUID() hands out an id not in use; ids being alike, the first
\* of those not among `used`
FreshUuids(used) ==
    {Uuid(n) : n \in {k \in 1..MaxCreated :
                         /\ Uuid(k) \notin used
                         /\ \A j \in 1..(k - 1) : Uuid(j) \in used}}

\* the ids in the order in which the remote API lists its products
ProductIdSeq == <<<<"1">>, <<"x">>>> \o [n \in 1..MaxCreated |-> Uuid(n)]

\* the documents the remote API answers a listing with
Rows(db) ==
    SelectSeq([i \in 1..Len(ProductIdSeq) |-> db[ProductIdSeq[i]]],
              LAMBDA row : row.id # <<>>)

\* data.map(item => Product.fromPrimitives(item)), [] when the fetch or a
\* conversion fails
ProductsOrEmpty(rows, fetchFails, now) ==
    IF fetchFails \/ \E i \in 1..Len(rows) : ~fromPrimitives(rows[i], now).ok
    THEN <<>>
    ELSE [i \in 1..Len(rows) |-> fromPrimitives(rows[i], now).value]

\* ApiProductRepository.findAll
ProductRepoFindAll(db, fetchFails, now) ==
    ProductsOrEmpty(Rows(db), fetchFails, now)

\* ApiProductRepository.findByCategory; the API filters by ?category=
ProductRepoFindByCategory(db, category, fetchFails, now) ==
    ProductsOrEmpty(SelectSeq(Rows(db), LAMBDA row : row.category = category.value),
                    fetchFails, now)

----------------------------------------------------------------------------
(* ApiProductRepository called directly: inputs and actions                *)

\* the products handed to save
SaveInputs ==
    {ProductCreate(id, name, <<"d">>, price, NewProductCategory(category).value,
                   Num(3), 0).value :
        id \in {<<"1">>, <<"x">>}, name \in {<<"P">>, <<"L">>},
        price \in {Num(5)}, category \in {electronics, books}}

NoRepoCall ==
    [op |-> "none", id |-> <<>>, category |-> <<>>, fetchFails |-> FALSE,
     lookupFails |-> FALSE, dbBefore |-> <<>>, threw |-> FALSE, error |-> "",
     product |-> NoProduct, list |-> <<>>, requests |-> <<>>]

\* a call of findById
RepoFindById ==
    /\ \E id \in {<<"1">>, <<"x">>}, fetchFails \in BOOLEAN :
          repoCall' = [NoRepoCall EXCEPT
                          !.op = "findById", !.id = id, !.fetchFails = fetchFails,
                          !.dbBefore = productDb,
                          !.product = ProductRepoFindById(productDb, id, fetchFails, clock)]
    /\ UNCHANGED <<clock, valueObjectVars, productVars, reviewVars, reviewServiceVars,
                   productServiceVars, httpVars, authVars, mockVars, routeVars, laterVars>>

\* a call of findAll
RepoFindAll ==
    /\ \E fetchFails \in BOOLEAN :
          repoCall' = [NoRepoCall EXCEPT
                          !.op = "findAll", !.fetchFails = fetchFails,
                          !.dbBefore = productDb,
                          !.list = ProductRepoFindAll(productDb, fetchFails, clock)]
    /\ UNCHANGED <<clock, valueObjectVars, productVars, reviewVars, reviewServiceVars,
                   productServiceVars, httpVars, authVars, mockVars, routeVars, laterVars>>

\* a call of findByCategory
RepoFindByCategory ==
    /\ \E category \in {electronics, books}, fetchFails \in BOOLEAN :
          repoCall' = [NoRepoCall EXCEPT
                          !.op = "findByCategory", !.category = category,
                          !.fetchFails = fetchFails, !.dbBefore = productDb,
                          !.list = ProductRepoFindByCategory(productDb,
                                       NewProductCategory(category).value,
                                       fetchFails, clock)]
    /\ UNCHANGED <<clock, valueObjectVars, productVars, reviewVars, reviewServiceVars,
                   productServiceVars, httpVars, authVars, mockVars, routeVars, laterVars>>

\* a call of save
RepoSave ==
    /\ \E p \in SaveInputs, lookupFails \in BOOLEAN, fetchFails \in BOOLEAN :
          LET s == ProductRepoSave(productDb, p, lookupFails, fetchFails, clock)
          IN  /\ productDb' = s.db
              /\ repoCall' = [NoRepoCall EXCEPT
                                 !.op = "save", !.id = p.id, !.product = p,
                                 !.fetchFails = fetchFails, !.lookupFails = lookupFails,
                                 !.dbBefore = productDb, !.threw = ~s.ok,
                                 !.error = s.error, !.requests = s.requests]
    /\ UNCHANGED <<clock, valueObjectVars, productVars, reviewVars, reviewServiceVars,
                   productSvc, httpVars, authVars, mockVars, routeVars, laterVars>>

\* a call of delete
RepoDelete ==
    /\ \E id \in {<<"1">>, <<"x">>}, fetchFails \in BOOLEAN :
          LET d == ProductRepoDelete(productDb, id, fetchFails)
          IN  /\ productDb' = d.db
              /\ repoCall' = [NoRepoCall EXCEPT
                                 !.op = "delete", !.id = id, !.fetchFails = fetchFails,
                                 !.dbBefore = productDb, !.threw = ~d.ok,
                                 !.error = d.error, !.requests = d.requests]
    /\ UNCHANGED <<clock, valueObjectVars, productVars, reviewVars, reviewServiceVars,
                   productSvc, httpVars, authVars, mockVars, routeVars, laterVars>>

----------------------------------------------------------------------------
(* ProductService *)

\* truthiness of an optional string: undefined and "" are falsy
StrTruthy(x) == x.has /\ Len(x.s) > 0

\* `x || fallback` on an optional string
StrOr(x, fallback) == IF StrTruthy(x) THEN x.s ELSE fallback

NoUpdateProductDto ==
    [name |-> Absent, description |-> Absent, price |-> JsUndefined,
     category |-> Absent, stockQuantity |-> JsUndefined]

\* the outcome of a ProductService call: whether it threw, whether the
\* product was found (otherwise null is returned), the API afterwards, the
\* entity as fetched and as returned, the list returned, the HTTP writes
\* issued, and the repository methods called, in the order of the calls
\* (each is awaited before the next is made)
NoProductOutcome ==
    [threw |-> FALSE, error |-> "", found |-> FALSE, returned |-> "nothing",
     db |-> <<>>, entityBefore |-> NoProduct, entityAfter |-> NoProduct,
     list |-> <<>>, requests |-> <<>>, calls |-> <<>>]

\* the first step of updateProduct: updateDetails when name, description or
\* category is truthy, each falsy one replaced by the product's own
ApplyDetails(p, dto, now) ==
    IF StrTruthy(dto.name) \/ StrTruthy(dto.description) \/ StrTruthy(dto.category)
    THEN LET c == IF StrTruthy(dto.category)
                  THEN NewProductCategory(dto.category.s)
                  ELSE [ok |-> TRUE, error |-> "", value |-> p.category]
         IN  IF ~c.ok
             THEN [ok |-> FALSE, error |-> c.error, value |-> p]
             ELSE updateDetails(p, StrOr(dto.name, p.name),
                                StrOr(dto.description, p.description), c.value, now)
    ELSE [ok |-> TRUE, error |-> "", value |-> p]

\* a call that has found its product
FoundProduct(db, existingProduct) ==
    [NoProductOutcome EXCEPT !.db = db, !.found = TRUE, !.calls = <<"findById">>,
                             !.entityBefore = existingProduct,
                             !.entityAfter = existingProduct]

\* updateProduct, were it to read the product back after saving it
updateProduct_saved_refetches(o, s) ==
    IF ~s.ok
    THEN Threw([o EXCEPT !.db = s.db, !.requests = s.requests,
                         !.calls = Append(@, "save")], s.error)
    ELSE [o EXCEPT !.db = s.db, !.requests = s.requests, !.returned = "product",
                   !.calls = Append(Append(@, "save"), "findById")]

\* updateProduct once save has answered with s
updateProduct_saved(o, s) ==
    IF ~s.ok
    THEN Threw([o EXCEPT !.db = s.db, !.requests = s.requests,
                         !.calls = Append(@, "save")], s.error)
    ELSE [o EXCEPT !.db = s.db, !.requests = s.requests, !.returned = "product",
                   !.calls = Append(@, "save")]

\* updateProduct once the stock step has answered with st
updateProduct_stocked(db, found, st, fail, now) ==
    IF ~st.ok THEN Threw([found EXCEPT !.entityAfter = st.value], st.error)
    ELSE updateProduct_saved([found EXCEPT !.entityAfter = st.value],
             ProductRepoSave(db, st.value, fail.lookup, fail.write, now))

\* updateProduct once the price step has answered with pr
updateProduct_priced(db, dto, found, pr, fail, now) ==
    IF ~pr.ok THEN Threw([found EXCEPT !.entityAfter = pr.value], pr.error)
    ELSE updateProduct_stocked(db, found,
             IF dto.stockQuantity.kind # "undefined"
             THEN updateStock(pr.value, dto.stockQuantity, now)
             ELSE pr,
             fail, now)

\* updateProduct once the details step has answered with d
updateProduct_detailed(db, dto, found, d, fail, now) ==
    IF ~d.ok THEN Threw([found EXCEPT !.entityAfter = d.value], d.error)
    ELSE updateProduct_priced(db, dto, found,
             IF dto.price.kind # "undefined"
             THEN updatePrice(d.value, dto.price, now)
             ELSE d,
             fail, now)

\* updateProduct, were it to throw when nothing is found
updateProduct_found_throws(db, dto, existingProduct, fail, now) ==
    IF ~existingProduct.exists
    THEN Threw([NoProductOutcome EXCEPT !.db = db, !.calls = <<"findById">>],
               "Product not found")
    ELSE updateProduct_detailed(db, dto, FoundProduct(db, existingProduct),
                                ApplyDetails(existingProduct, dto, now), fail, now)

\* updateProduct once findById has answered with existingProduct
updateProduct_found(db, dto, existingProduct, fail, now) ==
    IF ~existingProduct.exists
    THEN [NoProductOutcome EXCEPT !.db = db, !.returned = "null",
                                  !.calls = <<"findById">>]
    ELSE updateProduct_detailed(db, dto, FoundProduct(db, existingProduct),
                                ApplyDetails(existingProduct, dto, now), fail, now)

\* ProductService.updateProduct(id, productDto)
updateProduct(db, id, dto, fail, now) ==
    updateProduct_found(db, dto, ProductRepoFindById(db, id, fail.find, now),
                        fail, now)

\* getProductById once findById has answered with existingProduct
getProductById_found(db, existingProduct) ==
    IF ~existingProduct.exists
    THEN [NoProductOutcome EXCEPT !.db = db, !.returned = "null",
                                  !.calls = <<"findById">>]
    ELSE [FoundProduct(db, existingProduct) EXCEPT !.returned = "product"]

\* ProductService.getProductById(id)
getProductById(db, id, fail, now) ==
    getProductById_found(db, ProductRepoFindById(db, id, fail.find, now))

\* ProductService.getAllProducts()
getAllProducts(db, fail, now) ==
    [NoProductOutcome EXCEPT !.db = db, !.returned = "list", !.calls = <<"findAll">>,
                             !.list = ProductRepoFindAll(db, fail.find, now)]

\* getProductsByCategory once `new ProductCategory` has answered with
\* category: its error is caught, logged and answered with []
getProductsByCategory_category(db, category, fail, now) ==
    IF ~category.ok
    THEN [NoProductOutcome EXCEPT !.db = db, !.returned = "list"]
    ELSE [NoProductOutcome EXCEPT
             !.db = db, !.returned = "list", !.calls = <<"findByCategory">>,
             !.list = ProductRepoFindByCategory(db, category.value, fail.find, now)]

\* ProductService.getProductsByCategory(categoryName)
getProductsByCategory(db, categoryName, fail, now) ==
    getProductsByCategory_category(db, NewProductCategory(categoryName), fail, now)

NoCreateProductDto ==
    [id |-> Absent, name |-> <<>>, description |-> <<>>, price |-> JsUndefined,
     category |-> <<>>, stockQuantity |-> JsUndefined]

\* createProduct once save has answered with s
createProduct_saved(o, s) ==
    IF ~s.ok
    THEN Threw([o EXCEPT !.db = s.db, !.requests = s.requests,
                         !.calls = Append(@, "save")], s.error)
    ELSE [o EXCEPT !.db = s.db, !.requests = s.requests, !.returned = "product",
                   !.calls = Append(@, "save")]

\* createProduct once Product.create has answered with p
createProduct_created(db, p, fail, now) ==
    IF ~p.ok THEN Threw([NoProductOutcome EXCEPT !.db = db], p.error)
    ELSE createProduct_saved([NoProductOutcome EXCEPT !.db = db, !.entityAfter = p.value],
             ProductRepoSave(db, p.value, fail.lookup, fail.write, now))

\* createProduct once `new ProductCategory` has answered with category
createProduct_category(db, dto, uuid, category, fail, now) ==
    IF ~category.ok THEN Threw([NoProductOutcome EXCEPT !.db = db], category.error)
    ELSE createProduct_created(db,
             ProductCreate(StrOr(dto.id, uuid), dto.name, dto.description,
                           dto.price, category.value, dto.stockQuantity, now),
             fail, now)

\* ProductService.createProduct(productDto)
createProduct(db, dto, uuid, fail, now) ==
    createProduct_category(db, dto, uuid, NewProductCategory(dto.category), fail, now)

\* deleteProduct once delete has answered with d
deleteProduct_deleted(found, d) ==
    IF ~d.ok
    THEN Threw([found EXCEPT !.db = d.db, !.requests = d.requests,
                             !.calls = Append(@, "delete")], d.error)
    ELSE [found EXCEPT !.db = d.db, !.requests = d.requests, !.returned = "true",
                       !.calls = Append(@, "delete")]

\* deleteProduct, were it to call delete without looking the product up
deleteProduct_found_noLookup(db, id, existingProduct, fail) ==
    deleteProduct_deleted(FoundProduct(db, existingProduct),
                          ProductRepoDelete(db, id, fail.write))

\* deleteProduct once findById has answered with existingProduct
deleteProduct_found(db, id, existingProduct, fail) ==
    IF ~existingProduct.exists
    THEN [NoProductOutcome EXCEPT !.db = db, !.returned = "false",
                                  !.calls = <<"findById">>]
    ELSE deleteProduct_deleted(FoundProduct(db, existingProduct),
                               ProductRepoDelete(db, id, fail.write))

\* ProductService.deleteProduct(id)
deleteProduct(db, id, fail, now) ==
    deleteProduct_found(db, id, ProductRepoFindById(db, id, fail.find, now), fail)

----------------------------------------------------------------------------
(* ProductService at work: inputs and actions                              *)

\* the product the remote API holds at the start
SeedProduct ==
    [id |-> <<"1">>, name |-> Phone, description |-> <<"d">>, price |-> Num(5),
     category |-> electronics, inStock |-> TRUE, stockQuantity |-> Num(3),
     createdAt |-> toISOString(NewDate(0)).value,
     updatedAt |-> toISOString(NewDate(0)).value]

ProductIdArgs == {<<"1">>, <<"x">>}

\* the remote API at the start: product "1" and nothing under the other ids
InitProductDb ==
    [i \in ProductIdArgs \cup ProductUuids |->
        IF i = <<"1">> THEN SeedProduct ELSE NoPrimitives]

\* the empty DTO, the DTOs with one field, and some with several
UpdateProductDtos ==
    {NoUpdateProductDto}
    \cup {[NoUpdateProductDto EXCEPT !.name = Present(n)] :
             n \in {<<>>, <<" ">>, Laptop}}
    \cup {[NoUpdateProductDto EXCEPT !.description = Present(<<>>)]}
    \cup {[NoUpdateProductDto EXCEPT !.category = Present(c)] :
             c \in {Capitalize(books), gadgets}}
    \cup {[NoUpdateProductDto EXCEPT !.price = n] : n \in {Num(0), Num(-1)}}
    \cup {[NoUpdateProductDto EXCEPT !.stockQuantity = n] : n \in {Num(0), Num(-1)}}
    \cup {[name |-> Present(Laptop), description |-> Present(<<"n">>),
           price |-> Num(0), category |-> Present(books),
           stockQuantity |-> Num(0)]}

\* a valid DTO, and DTOs with one invalid field each
CreateProductDtos ==
    {[NoCreateProductDto EXCEPT !.name = Laptop, !.price = Num(5), !.category = books],
     [NoCreateProductDto EXCEPT !.name = Laptop, !.price = Num(5), !.category = gadgets],
     [NoCreateProductDto EXCEPT !.name = Laptop, !.price = Num(-1), !.category = books],
     [NoCreateProductDto EXCEPT !.name = <<" ">>, !.price = Num(5), !.category = books],
     [NoCreateProductDto EXCEPT !.name = Laptop, !.price = Num(5), !.category = books,
                                !.stockQuantity = Num(-1)]}

ProductFailures == {f \in Failures : ~f.publish}

\* the failures of a call that only reads
ReadFailures == {f \in ProductFailures : ~f.lookup /\ ~f.write}

NoProductSvc ==
    [op |-> "none", id |-> <<>>, category |-> <<>>, dto |-> NoUpdateProductDto,
     createDto |-> NoCreateProductDto, fail |-> NoFailure,
     dbBefore |-> <<>>, outcome |-> NoProductOutcome]

\* a request handled by ProductService.updateProduct
UpdateProduct ==
    /\ \E id \in ProductIdArgs, dto \in UpdateProductDtos,
          fail \in {f \in ProductFailures : ~f.lookup} :
          LET o == updateProduct(productDb, id, dto, fail, clock)
          IN  /\ productDb' = o.db
              /\ productSvc' = [NoProductSvc EXCEPT
                                  !.op = "updateProduct", !.id = id, !.dto = dto,
                                  !.fail = fail, !.dbBefore = productDb, !.outcome = o]
    /\ UNCHANGED <<clock, valueObjectVars, productVars, reviewVars, reviewServiceVars, outerVars, laterVars>>

\* a request handled by ProductService.deleteProduct
DeleteProduct ==
    /\ \E id \in ProductIdArgs, fail \in {f \in ProductFailures : ~f.lookup} :
          LET o == deleteProduct(productDb, id, fail, clock)
          IN  /\ productDb' = o.db
              /\ productSvc' = [NoProductSvc EXCEPT
                                  !.op = "deleteProduct", !.id = id,
                                  !.fail = fail, !.dbBefore = productDb, !.outcome = o]
    /\ UNCHANGED <<clock, valueObjectVars, productVars, reviewVars, reviewServiceVars, outerVars, laterVars>>

\* a request handled by ProductService.getProductById
GetProductById ==
    /\ \E id \in ProductIdArgs, fail \in ReadFailures :
          productSvc' = [NoProductSvc EXCEPT
                            !.op = "getProductById", !.id = id, !.fail = fail,
                            !.dbBefore = productDb,
                            !.outcome = getProductById(productDb, id, fail, clock)]
    /\ UNCHANGED <<clock, valueObjectVars, productVars, reviewVars, reviewServiceVars,
                   productDb, outerVars, laterVars>>

\* a request handled by ProductService.getAllProducts
GetAllProducts ==
    /\ \E fail \in ReadFailures :
          productSvc' = [NoProductSvc EXCEPT
                            !.op = "getAllProducts", !.fail = fail,
                            !.dbBefore = productDb,
                            !.outcome = getAllProducts(productDb, fail, clock)]
    /\ UNCHANGED <<clock, valueObjectVars, productVars, reviewVars, reviewServiceVars,
                   productDb, outerVars, laterVars>>

\* a request handled by ProductService.getProductsByCategory
GetProductsByCategory ==
    /\ \E category \in {electronics, Capitalize(books), gadgets},
          fail \in ReadFailures :
          productSvc' = [NoProductSvc EXCEPT
                            !.op = "getProductsByCategory", !.category = category,
                            !.fail = fail, !.dbBefore = productDb,
                            !.outcome = getProductsByCategory(productDb, category,
                                                             fail, clock)]
    /\ UNCHANGED <<clock, valueObjectVars, productVars, reviewVars, reviewServiceVars,
                   productDb, outerVars, laterVars>>

\* a request handled by ProductService.createProduct
CreateProduct ==
    /\ \E dto \in CreateProductDtos,
          fail \in {f \in ProductFailures : ~f.find /\ ~f.lookup},
          uuid \in FreshUuids({u \in ProductUuids : InDb(productDb, u)}) :
          \E o \in {createProduct(productDb, dto, uuid, fail, clock)} :
              /\ productDb' = o.db
              /\ productSvc' = [NoProductSvc EXCEPT
                                  !.op = "createProduct", !.id = uuid,
                                  !.createDto = dto, !.fail = fail,
                                  !.dbBefore = productDb, !.outcome = o]
    /\ UNCHANGED <<clock, valueObjectVars, productVars, reviewVars, reviewServiceVars, outerVars, laterVars>>

----------------------------------------------------------------------------
(* The HTTP handlers of /api/products and /api/products/:id                *)

\* NextResponse.json: status, the error and message fields of an error body,
\* the message of a deletion, or the product DTO
Response(status, error, message, body) ==
    [status |-> status, error |-> error, message |-> message, body |-> body]

NoResponse == Response(0, "", "", NoPrimitives)

\* NextResponse.json(product.toPrimitives(), {status}); toPrimitives may throw
JsonProduct(status, primitives, failure) ==
    IF primitives.ok THEN Response(status, "", "", primitives.value)
    ELSE Response(500, failure, primitives.error, NoPrimitives)

\* GET /api/products/:id, once getProductById has ended with outcome o
GET_answered_empty200(o) ==
    IF o.threw THEN Response(500, "Failed to fetch product", o.error, NoPrimitives)
    ELSE IF o.returned = "null" THEN Response(200, "", "", NoPrimitives)
    ELSE JsonProduct(200, toPrimitives(o.entityAfter), "Failed to fetch product")

GET_answered(o) ==
    IF o.threw THEN Response(500, "Failed to fetch product", o.error, NoPrimitives)
    ELSE IF o.returned = "null" THEN Response(404, "Product not found", "", NoPrimitives)
    ELSE JsonProduct(200, toPrimitives(o.entityAfter), "Failed to fetch product")

\* the UpdateProductDto that PUT builds from the body
PutDto(body) ==
    [name |-> body.name, description |-> body.description,
     price |-> IF body.price.kind # "undefined" THEN ToNumber(body.price)
               ELSE JsUndefined,
     category |-> body.category,
     stockQuantity |-> IF body.stockQuantity.kind # "undefined"
                       THEN ToNumber(body.stockQuantity) ELSE JsUndefined]

\* PUT /api/products/:id, once updateProduct has ended with outcome o
PUT_answered(o) ==
    IF o.threw THEN Response(500, "Failed to update product", o.error, NoPrimitives)
    ELSE IF o.returned = "null" THEN Response(404, "Product not found", "", NoPrimitives)
    ELSE JsonProduct(200, toPrimitives(o.entityAfter), "Failed to update product")

\* DELETE /api/products/:id, once deleteProduct has ended with outcome o
DELETE_answered(o) ==
    IF o.threw THEN Response(500, "Failed to delete product", o.error, NoPrimitives)
    ELSE IF o.returned = "false" THEN Response(404, "Product not found", "", NoPrimitives)
    ELSE Response(200, "", "Product deleted successfully", NoPrimitives)

\* !body.name || !body.price || !body.category
MissingRequiredFields(body) ==
    ~StrTruthy(body.name) \/ ~NumTruthy(body.price) \/ ~StrTruthy(body.category)

\* the CreateProductDto that POST builds from the body
PostDto(body) ==
    [id |-> Absent, name |-> body.name.s,
     description |-> StrOr(body.description, <<>>),
     price |-> ToNumber(body.price), category |-> body.category.s,
     stockQuantity |-> IF body.stockQuantity.kind # "undefined"
                       THEN ToNumber(body.stockQuantity) ELSE Num(0)]

\* POST /api/products, once createProduct has ended with outcome o
POST_answered(o) ==
    IF o.threw THEN Response(500, "Failed to create product", o.error, NoPrimitives)
    ELSE JsonProduct(201, toPrimitives(o.entityAfter), "Failed to create product")

\* POST /api/products: the outcome of the service call, none when the body
\* is rejected
POST_outcome(db, body, uuid, fail, now) ==
    IF MissingRequiredFields(body) THEN [NoProductOutcome EXCEPT !.db = db]
    ELSE createProduct(db, PostDto(body), uuid, fail, now)

\* POST /api/products
POST(body, o) ==
    IF MissingRequiredFields(body)
    THEN Response(400, "Missing required fields", "", NoPrimitives)
    ELSE POST_answered(o)

----------------------------------------------------------------------------
(* The HTTP handlers at work: inputs and actions                           *)

\* request bodies of PUT /api/products/:id
PutBodies ==
    {NoUpdateProductDto,
     [NoUpdateProductDto EXCEPT !.name = Present(Laptop)],
     [NoUpdateProductDto EXCEPT !.name = Present(<<" ">>)],
     [NoUpdateProductDto EXCEPT !.price = Num(0)],
     [NoUpdateProductDto EXCEPT !.price = Num(-1)],
     [NoUpdateProductDto EXCEPT !.category = Present(gadgets)],
     [NoUpdateProductDto EXCEPT !.stockQuantity = Num(-1)]}

\* request bodies of POST /api/products
PostBodies ==
    {[name |-> n, description |-> d, price |-> p, category |-> c, stockQuantity |-> s] :
        n \in {Present(Laptop)}, d \in {Absent}, p \in {Num(0), Num(5), Num(-1)},
        c \in {Present(books), Present(gadgets)}, s \in {JsUndefined, Num(-1)}}
    \cup {[NoUpdateProductDto EXCEPT !.name = Present(Laptop), !.price = Num(5)],
          [NoUpdateProductDto EXCEPT !.name = Present(Laptop), !.category = Present(books)],
          [NoUpdateProductDto EXCEPT !.price = Num(5), !.category = Present(books)],
          [name |-> Present(<<" ">>), description |-> Present(<<"n">>), price |-> Num(5),
           category |-> Present(books), stockQuantity |-> Num(9)],
          [name |-> Present(Laptop), description |-> Present(<<"n">>), price |-> Num(5),
           category |-> Present(books), stockQuantity |-> Num(9)]}

HttpFailures == {f \in ProductFailures : ~f.lookup}

NoHttpCall ==
    [handler |-> "none", id |-> <<>>, body |-> NoUpdateProductDto, fail |-> NoFailure,
     dbBefore |-> <<>>, outcome |-> NoProductOutcome, response |-> NoResponse]

\* the handler's record of a request
Handled(handler, id, body, fail, db, o, response) ==
    [handler |-> handler, id |-> id, body |-> body, fail |-> fail, dbBefore |-> db,
     outcome |-> o, response |-> response]

\* GET /api/products/:id
HandleGet ==
    /\ \E id \in ProductIdArgs, fail \in {f \in HttpFailures : ~f.write} :
          \E o \in {getProductById(productDb, id, fail, clock)} :
              httpCall' = Handled("GET", id, NoUpdateProductDto, fail, productDb, o,
                                  GET_answered(o))
    /\ UNCHANGED <<clock, valueObjectVars, productVars, reviewVars, reviewServiceVars,
                   productServiceVars, repoVars, authVars, mockVars, routeVars, laterVars>>

\* PUT /api/products/:id
HandlePut ==
    /\ \E id \in ProductIdArgs, body \in PutBodies, fail \in HttpFailures :
          \E o \in {updateProduct(productDb, id, PutDto(body), fail, clock)} :
              /\ productDb' = o.db
              /\ httpCall' = Handled("PUT", id, body, fail, productDb, o, PUT_answered(o))
    /\ UNCHANGED <<clock, valueObjectVars, productVars, reviewVars, reviewServiceVars,
                   productSvc, repoVars, authVars, mockVars, routeVars, laterVars>>

\* DELETE /api/products/:id
HandleDelete ==
    /\ \E id \in ProductIdArgs, fail \in HttpFailures :
          \E o \in {deleteProduct(productDb, id, fail, clock)} :
              /\ productDb' = o.db
              /\ httpCall' = Handled("DELETE", id, NoUpdateProductDto, fail, productDb,
                                     o, DELETE_answered(o))
    /\ UNCHANGED <<clock, valueObjectVars, productVars, reviewVars, reviewServiceVars,
                   productSvc, repoVars, authVars, mockVars, routeVars, laterVars>>

\* POST /api/products; randomUUID hands out an id not in use
HandlePost ==
    /\ \E body \in PostBodies, fail \in {f \in HttpFailures : ~f.find},
          uuid \in FreshUuids({u \in ProductUuids : InDb(productDb, u)}) :
          \E o \in {POST_outcome(productDb, body, uuid, fail, clock)} :
              /\ productDb' = o.db
              /\ httpCall' = Handled("POST", <<>>, body, fail, productDb, o, POST(body, o))
    /\ UNCHANGED <<clock, valueObjectVars, productVars, reviewVars, reviewServiceVars,
                   productSvc, repoVars, authVars, mockVars, routeVars, laterVars>>

----------------------------------------------------------------------------
(* ProductService, mock-data variant: the service keeps a list of products *)
(* of its own and falls back to it when the repository has no answer.      *)
(* Products are objects: a value the service returns is either an object   *)
(* of its own (alias 0) or the very object at a position of the list.      *)

\* initializeMockData(); prices are kept to the nearest whole number
InitMockProducts ==
    <<
      ProductCreate(<<"1">>,
          <<"S","m","a","r","t","p","h","o","n","e">>,
          <<"A"," ","h","i","g","h","-","e","n","d"," ","s","m","a","r","t","p","h","o","n","e"," ","w","i","t","h"," ","t","h","e"," ","l","a","t","e","s","t"," ","f","e","a","t","u","r","e","s">>,
          Num(1000), NewProductCategory(electronics).value, Num(50), 0).value,
      ProductCreate(<<"2">>,
          <<"L","a","p","t","o","p">>,
          <<"P","o","w","e","r","f","u","l"," ","l","a","p","t","o","p"," ","f","o","r"," ","w","o","r","k"," ","a","n","d"," ","g","a","m","i","n","g">>,
          Num(1500), NewProductCategory(electronics).value, Num(30), 0).value,
      ProductCreate(<<"3">>,
          <<"H","e","a","d","p","h","o","n","e","s">>,
          <<"N","o","i","s","e","-","c","a","n","c","e","l","l","i","n","g"," ","w","i","r","e","l","e","s","s"," ","h","e","a","d","p","h","o","n","e","s">>,
          Num(300), NewProductCategory(electronics).value, Num(100), 0).value,
      ProductCreate(<<"4">>,
          <<"T","-","s","h","i","r","t">>,
          <<"C","o","m","f","o","r","t","a","b","l","e"," ","c","o","t","t","o","n"," ","t","-","s","h","i","r","t">>,
          Num(20), NewProductCategory(clothing).value, Num(200), 0).value,
      ProductCreate(<<"5">>,
          <<"J","e","a","n","s">>,
          <<"C","l","a","s","s","i","c"," ","b","l","u","e"," ","j","e","a","n","s">>,
          Num(50), NewProductCategory(clothing).value, Num(150), 0).value
    >>

\* productRepository.findById as the ProductRepository interface allows it:
\* a product, null, or a rejection (where ApiProductRepository answers null)
Repository_findById(db, id, fails, now) ==
    [threw |-> fails, value |-> ProductRepoFindById(db, id, fails, now)]

\* productRepository.findAll, likewise
Repository_findAll(db, fails, now) ==
    [threw |-> fails, value |-> ProductRepoFindAll(db, fails, now)]

\* productRepository.findByCategory, likewise
Repository_findByCategory(db, category, fails, now) ==
    [threw |-> fails, value |-> ProductRepoFindByCategory(db, category, fails, now)]

\* mockProducts.findIndex(p => p.id === id) + 1, 0 when there is none
IndexOfId(list, id) ==
    IF \E i \in 1..Len(list) : list[i].id = id
    THEN CHOOSE i \in 1..Len(list) :
             /\ list[i].id = id
             /\ \A j \in 1..(i - 1) : list[j].id # id
    ELSE 0

\* a returned object: the product, and the position of the list it is the
\* object of (0 for an object the list does not hold)
Handle(entity, alias) == [entity |-> entity, alias |-> alias]
NoHandle == Handle(NoProduct, 0)

\* the list's objects, each with its position
Handles(list) == [i \in 1..Len(list) |-> Handle(list[i], i)]

\* fresh objects
Fresh(products) == [i \in 1..Len(products) |-> Handle(products[i], 0)]

\* the products of the objects handed to the caller
Entities(held) == [i \in 1..Len(held) |-> held[i].entity]

\* the list after the object at position alias has taken the state e
Put(list, alias, e) == IF alias = 0 THEN list ELSE [list EXCEPT ![alias] = e]

\* the outcome of a call: whether it threw, whether save or delete threw
\* inside it, what it returned, the objects returned, the API and the list
\* afterwards
NoMockOutcome ==
    [threw |-> FALSE, error |-> "", writeThrew |-> FALSE, returned |-> "nothing",
     held |-> <<>>, db |-> <<>>, list |-> <<>>]

MockOutcome(db, list, returned, held, writeThrew) ==
    [threw |-> FALSE, error |-> "", writeThrew |-> writeThrew, returned |-> returned,
     held |-> held, db |-> db, list |-> list]

MockThrew(db, list, error) ==
    [threw |-> TRUE, error |-> error, writeThrew |-> FALSE, returned |-> "nothing",
     held |-> <<>>, db |-> db, list |-> list]

\* getProductById once findById has answered with r: the product found, or
\* else the first object of the list with that id
Mock_resolve(r, list, index) ==
    IF ~r.threw /\ r.value.exists THEN Handle(r.value, 0)
    ELSE IF index # 0 THEN Handle(list[index], index)
    ELSE NoHandle

Mock_getProductById_resolved(db, list, h) ==
    IF h.entity.exists
    THEN MockOutcome(db, list, "product", <<h>>, FALSE)
    ELSE MockOutcome(db, list, "null", <<>>, FALSE)

\* ProductService.getProductById(id)
Mock_getProductById(db, list, id, fail, now) ==
    Mock_getProductById_resolved(db, list,
        Mock_resolve(Repository_findById(db, id, fail.find, now), list,
                     IndexOfId(list, id)))

\* getAllProducts, were it to return an empty answer of the repository as is
Mock_getAllProducts_found_asIs(db, list, r) ==
    IF ~r.threw
    THEN MockOutcome(db, list, "list", Fresh(r.value), FALSE)
    ELSE MockOutcome(db, list, "list", Handles(list), FALSE)

\* ProductService.getAllProducts() once findAll has answered with r:
\* [...this.mockProducts] is a new array of the list's own objects
Mock_getAllProducts_found(db, list, r) ==
    IF ~r.threw /\ Len(r.value) > 0
    THEN MockOutcome(db, list, "list", Fresh(r.value), FALSE)
    ELSE MockOutcome(db, list, "list", Handles(list), FALSE)

Mock_getAllProducts(db, list, fail, now) ==
    Mock_getAllProducts_found(db, list, Repository_findAll(db, fail.find, now))

\* ProductService.getProductsByCategory(categoryName)
Mock_getProductsByCategory_found(db, list, category, r) ==
    IF ~r.threw /\ Len(r.value) > 0
    THEN MockOutcome(db, list, "list", Fresh(r.value), FALSE)
    ELSE MockOutcome(db, list, "list",
             SelectSeq(Handles(list),
                       LAMBDA h : h.entity.category.value = category.value),
             FALSE)

Mock_getProductsByCategory_category(db, list, category, fail, now) ==
    IF ~category.ok THEN MockOutcome(db, list, "list", <<>>, FALSE)
    ELSE Mock_getProductsByCategory_found(db, list, category.value,
             Repository_findByCategory(db, category.value, fail.find, now))

Mock_getProductsByCategory(db, list, categoryName, fail, now) ==
    Mock_getProductsByCategory_category(db, list, NewProductCategory(categoryName),
                                        fail, now)

\* createProduct, were it to pass the failure of save on
Mock_createProduct_saved_rethrows(list, p, s) ==
    IF s.ok
    THEN MockOutcome(s.db, list, "product", <<Handle(p, 0)>>, FALSE)
    ELSE MockThrew(s.db, list, s.error)

\* createProduct once save has answered with s
Mock_createProduct_saved(list, p, s) ==
    IF s.ok
    THEN MockOutcome(s.db, list, "product", <<Handle(p, 0)>>, FALSE)
    ELSE MockOutcome(s.db, Append(list, p), "product",
                     <<Handle(p, Len(list) + 1)>>, TRUE)

Mock_createProduct_created(db, list, p, fail, now) ==
    IF ~p.ok THEN MockThrew(db, list, p.error)
    ELSE Mock_createProduct_saved(list, p.value,
             ProductRepoSave(db, p.value, fail.find, fail.write, now))

Mock_createProduct_category(db, list, dto, uuid, category, fail, now) ==
    IF ~category.ok THEN MockThrew(db, list, category.error)
    ELSE Mock_createProduct_created(db, list,
             ProductCreate(StrOr(dto.id, uuid), dto.name, dto.description,
                           dto.price, category.value, dto.stockQuantity, now),
             fail, now)

\* ProductService.createProduct(productDto)
Mock_createProduct(db, list, dto, uuid, fail, now) ==
    Mock_createProduct_category(db, list, dto, uuid,
                                NewProductCategory(dto.category), fail, now)

\* updateProduct once save has answered with s
Mock_updateProduct_saved(list, id, h, e, s, index) ==
    IF s.ok
    THEN MockOutcome(s.db, list, "product", <<Handle(e, h.alias)>>, FALSE)
    ELSE MockOutcome(s.db, Put(list, index, e), "product",
                     <<Handle(e, IF index # 0 THEN index ELSE h.alias)>>, TRUE)

\* updateProduct once the stock step has answered with st; the mutators
\* work on the object itself, which may be an object of the list
Mock_updateProduct_stocked(db, list, id, h, st, fail, now) ==
    IF ~st.ok THEN MockThrew(db, Put(list, h.alias, st.value), st.error)
    ELSE Mock_updateProduct_saved(Put(list, h.alias, st.value), id, h, st.value,
             ProductRepoSave(db, st.value, fail.find, fail.write, now),
             IndexOfId(list, id))

Mock_updateProduct_priced(db, list, id, dto, h, pr, fail, now) ==
    IF ~pr.ok THEN MockThrew(db, Put(list, h.alias, pr.value), pr.error)
    ELSE Mock_updateProduct_stocked(db, list, id, h,
             IF dto.stockQuantity.kind # "undefined"
             THEN updateStock(pr.value, dto.stockQuantity, now)
             ELSE pr,
             fail, now)

Mock_updateProduct_detailed(db, list, id, dto, h, d, fail, now) ==
    IF ~d.ok THEN MockThrew(db, Put(list, h.alias, d.value), d.error)
    ELSE Mock_updateProduct_priced(db, list, id, dto, h,
             IF dto.price.kind # "undefined"
             THEN updatePrice(d.value, dto.price, now)
             ELSE d,
             fail, now)

Mock_updateProduct_resolved(db, list, id, dto, h, fail, now) ==
    IF ~h.entity.exists THEN MockOutcome(db, list, "null", <<>>, FALSE)
    ELSE Mock_updateProduct_detailed(db, list, id, dto, h,
                                     ApplyDetails(h.entity, dto, now), fail, now)

\* ProductService.updateProduct(id, productDto)
Mock_updateProduct(db, list, id, dto, fail, now) ==
    Mock_updateProduct_resolved(db, list, id, dto,
        Mock_resolve(Repository_findById(db, id, fail.find, now), list,
                     IndexOfId(list, id)),
        fail, now)

\* deleteProduct once delete has answered with d
Mock_deleteProduct_deleted(list, id, d) ==
    IF d.ok THEN MockOutcome(d.db, list, "true", <<>>, FALSE)
    ELSE MockOutcome(d.db, SelectSeq(list, LAMBDA p : p.id # id), "true", <<>>, TRUE)

Mock_deleteProduct_resolved(db, list, id, h, fail) ==
    IF ~h.entity.exists THEN MockOutcome(db, list, "false", <<>>, FALSE)
    ELSE Mock_deleteProduct_deleted(list, id, ProductRepoDelete(db, id, fail.write))

\* ProductService.deleteProduct(id)
Mock_deleteProduct(db, list, id, fail, now) ==
    Mock_deleteProduct_resolved(db, list, id,
        Mock_resolve(Repository_findById(db, id, fail.find, now), list,
                     IndexOfId(list, id)),
        fail)

----------------------------------------------------------------------------
(* The mock-data ProductService at work: inputs and actions                *)

\* which repository calls of a request fail: the reads and the writes
MockFailures == [find : BOOLEAN, write : BOOLEAN]
NoMockFailure == [find |-> FALSE, write |-> FALSE]

MockUpdateDtos ==
    {[NoUpdateProductDto EXCEPT !.price = Num(0)],
     [NoUpdateProductDto EXCEPT !.name = Present(Laptop), !.price = Num(-1)]}

MockCreateDtos ==
    {[NoCreateProductDto EXCEPT !.name = Laptop, !.price = Num(5), !.category = c] :
        c \in {books, gadgets}}

NoMockCall ==
    [op |-> "none", id |-> <<>>, category |-> <<>>, dto |-> NoUpdateProductDto,
     createDto |-> NoCreateProductDto, fail |-> NoMockFailure,
     dbBefore |-> <<>>, listBefore |-> <<>>, outcome |-> NoMockOutcome]

MockCalled(c, o) ==
    /\ productDb' = o.db
    /\ mockProducts' = o.list
    /\ mockCall' = [c EXCEPT !.dbBefore = productDb, !.listBefore = mockProducts,
                             !.outcome = o]

MockGetProductById ==
    /\ \E id \in ProductIdArgs, fail \in {f \in MockFailures : ~f.write} :
          MockCalled([NoMockCall EXCEPT !.op = "getProductById", !.id = id,
                                        !.fail = fail],
                     Mock_getProductById(productDb, mockProducts, id, fail, clock))
    /\ UNCHANGED <<clock, valueObjectVars, productVars, reviewVars, reviewServiceVars,
                   productSvc, repoVars, httpVars, authVars, routeVars, laterVars>>

MockGetAllProducts ==
    /\ \E fail \in {f \in MockFailures : ~f.write} :
          MockCalled([NoMockCall EXCEPT !.op = "getAllProducts", !.fail = fail],
                     Mock_getAllProducts(productDb, mockProducts, fail, clock))
    /\ UNCHANGED <<clock, valueObjectVars, productVars, reviewVars, reviewServiceVars,
                   productSvc, repoVars, httpVars, authVars, routeVars, laterVars>>

MockGetProductsByCategory ==
    /\ \E category \in {electronics, Capitalize(clothing), gadgets},
          fail \in {f \in MockFailures : ~f.write} :
          MockCalled([NoMockCall EXCEPT !.op = "getProductsByCategory",
                                        !.category = category, !.fail = fail],
                     Mock_getProductsByCategory(productDb, mockProducts, category,
                                                fail, clock))
    /\ UNCHANGED <<clock, valueObjectVars, productVars, reviewVars, reviewServiceVars,
                   productSvc, repoVars, httpVars, authVars, routeVars, laterVars>>

MockCreateProduct ==
    /\ \E dto \in MockCreateDtos, fail \in {f \in MockFailures : ~f.find},
          uuid \in FreshUuids({u \in ProductUuids :
                                  InDb(productDb, u) \/ IndexOfId(mockProducts, u) # 0}) :
          MockCalled([NoMockCall EXCEPT !.op = "createProduct", !.createDto = dto,
                                        !.id = uuid, !.fail = fail],
                     Mock_createProduct(productDb, mockProducts, dto, uuid, fail, clock))
    /\ UNCHANGED <<clock, valueObjectVars, productVars, reviewVars, reviewServiceVars,
                   productSvc, repoVars, httpVars, authVars, routeVars, laterVars>>

MockUpdateProduct ==
    /\ \E id \in ProductIdArgs, dto \in MockUpdateDtos, fail \in MockFailures :
          MockCalled([NoMockCall EXCEPT !.op = "updateProduct", !.id = id,
                                        !.dto = dto, !.fail = fail],
                     Mock_updateProduct(productDb, mockProducts, id, dto, fail, clock))
    /\ UNCHANGED <<clock, valueObjectVars, productVars, reviewVars, reviewServiceVars,
                   productSvc, repoVars, httpVars, authVars, routeVars, laterVars>>

MockDeleteProduct ==
    /\ \E id \in ProductIdArgs, fail \in MockFailures :
          MockCalled([NoMockCall EXCEPT !.op = "deleteProduct", !.id = id,
                                        !.fail = fail],
                     Mock_deleteProduct(productDb, mockProducts, id, fail, clock))
    /\ UNCHANGED <<clock, valueObjectVars, productVars, reviewVars, reviewServiceVars,
                   productSvc, repoVars, httpVars, authVars, routeVars, laterVars>>

\* the caller of the last request calls updatePrice(0) on the product, or
\* the first of the products, it was handed: the object changes, and with it
\* the list when the object is the list's
CallerUpdatesPrice ==
    /\ mockCall.op # "caller"
    /\ Len(mockCall.outcome.held) > 0
    /\ \E h \in {mockCall.outcome.held[1]} :
          \E e \in {updatePrice(h.entity, Num(0), clock).value} :
             /\ mockProducts' = Put(mockProducts, h.alias, e)
             /\ mockCall' = [NoMockCall EXCEPT
                               !.op = "caller", !.id = h.entity.id,
                               !.dbBefore = productDb, !.listBefore = mockProducts,
                               !.outcome = MockOutcome(productDb,
                                               Put(mockProducts, h.alias, e),
                                               "nothing", <<Handle(e, h.alias)>>, FALSE)]
    /\ UNCHANGED <<clock, valueObjectVars, productVars, reviewVars, reviewServiceVars,
                   productServiceVars, repoVars, httpVars, authVars, routeVars, laterVars>>

----------------------------------------------------------------------------
(* The route handlers over the mock-data ProductService.  Each of the two  *)
(* route modules builds a ProductService of its own, and with it a list of *)
(* its own: the collection route /api/products and the route by id         *)
(* /api/products/:id.                                                      *)

\* what a handler reads of the outcome of a call of the mock-data service
AsProductOutcome(m) ==
    [NoProductOutcome EXCEPT
        !.threw = m.threw, !.error = m.error, !.returned = m.returned, !.db = m.db,
        !.found = Len(m.held) > 0,
        !.entityAfter = IF Len(m.held) > 0 THEN m.held[1].entity ELSE NoProduct]

\* products.map(product => product.toPrimitives()), which throws when a
\* date is invalid
ProductDtos(products) ==
    IF \E i \in 1..Len(products) : ~toPrimitives(products[i]).ok
    THEN [ok |-> FALSE, value |-> <<>>]
    ELSE [ok |-> TRUE, value |-> [i \in 1..Len(products) |-> toPrimitives(products[i]).value]]

\* a response of the collection route: the status and the DTOs listed
ListResponse(status, products) == [status |-> status, products |-> products]

\* GET /api/products, once the service has ended with outcome m
GET_listed(m, dtos) ==
    IF m.threw \/ ~dtos.ok THEN ListResponse(500, <<>>)
    ELSE ListResponse(200, dtos.value)

\* GET /api/products?category=: getProductsByCategory when the parameter is
\* truthy, else getAllProducts
GET_list_outcome(db, list, category, fail, now) ==
    IF StrTruthy(category)
    THEN Mock_getProductsByCategory(db, list, category.s, fail, now)
    ELSE Mock_getAllProducts(db, list, fail, now)

\* POST /api/products over the mock-data service
MockPOST_outcome(db, list, body, uuid, fail, now) ==
    IF MissingRequiredFields(body) THEN MockOutcome(db, list, "nothing", <<>>, FALSE)
    ELSE Mock_createProduct(db, list, PostDto(body), uuid, fail, now)

\* the two services
Routes == {"collection", "byId"}

\* the lists after construction of the two services
InitRouteProducts == [r \in Routes |-> InitMockProducts]

RouteIdArgs == {<<"1">>} \cup ProductUuids

RoutePostBodies ==
    {[NoUpdateProductDto EXCEPT !.name = Present(Laptop), !.price = Num(5),
                                !.category = Present(books)],
     [NoUpdateProductDto EXCEPT !.name = Present(Laptop), !.price = Num(5)]}

RoutePutBodies == {[NoUpdateProductDto EXCEPT !.price = Num(0)]}

NoRouteCall ==
    [route |-> "none", method |-> "none", id |-> <<>>, fail |-> NoMockFailure,
     listsBefore |-> InitRouteProducts, outcome |-> NoMockOutcome,
     status |-> 0, products |-> <<>>]

\* a request served by the service of `route`, with outcome m of the service
\* and the status and the DTOs answered
Routed(route, method, id, fail, m, status, products) ==
    /\ productDb' = m.db
    /\ routeProducts' = [routeProducts EXCEPT ![route] = m.list]
    /\ routeCall' = [route |-> route, method |-> method, id |-> id, fail |-> fail,
                     listsBefore |-> routeProducts, outcome |-> m,
                     status |-> status, products |-> products]

\* GET /api/products
RouteGetList ==
    /\ \E category \in {Absent, Present(electronics)},
          fail \in {f \in MockFailures : ~f.write} :
          \E m \in {GET_list_outcome(productDb, routeProducts["collection"], category,
                                     fail, clock)} :
          \E r \in {GET_listed(m, ProductDtos(Entities(m.held)))} :
              Routed("collection", "GET", <<>>, fail, m, r.status, r.products)
    /\ UNCHANGED <<clock, valueObjectVars, productVars, reviewVars, reviewServiceVars,
                   productSvc, repoVars, httpVars, authVars, mockVars, laterVars>>

\* POST /api/products
RoutePost ==
    /\ \E body \in RoutePostBodies, fail \in {f \in MockFailures : ~f.find},
          uuid \in FreshUuids({u \in ProductUuids :
                                  \/ InDb(productDb, u)
                                  \/ \E r \in Routes : IndexOfId(routeProducts[r], u) # 0}) :
          \E m \in {MockPOST_outcome(productDb, routeProducts["collection"], body,
                                     uuid, fail, clock)} :
              Routed("collection", "POST", uuid, fail, m,
                     POST(body, AsProductOutcome(m)).status, <<>>)
    /\ UNCHANGED <<clock, valueObjectVars, productVars, reviewVars, reviewServiceVars,
                   productSvc, repoVars, httpVars, authVars, mockVars, laterVars>>

\* GET /api/products/:id
RouteGetById ==
    /\ \E id \in RouteIdArgs, fail \in {f \in MockFailures : ~f.write} :
          \E m \in {Mock_getProductById(productDb, routeProducts["byId"], id,
                                        fail, clock)} :
              Routed("byId", "GET", id, fail, m,
                     GET_answered(AsProductOutcome(m)).status, <<>>)
    /\ UNCHANGED <<clock, valueObjectVars, productVars, reviewVars, reviewServiceVars,
                   productSvc, repoVars, httpVars, authVars, mockVars, laterVars>>

\* PUT /api/products/:id
RoutePutById ==
    /\ \E id \in RouteIdArgs, body \in RoutePutBodies, fail \in MockFailures :
          \E m \in {Mock_updateProduct(productDb, routeProducts["byId"], id,
                                       PutDto(body), fail, clock)} :
              Routed("byId", "PUT", id, fail, m,
                     PUT_answered(AsProductOutcome(m)).status, <<>>)
    /\ UNCHANGED <<clock, valueObjectVars, productVars, reviewVars, reviewServiceVars,
                   productSvc, repoVars, httpVars, authVars, mockVars, laterVars>>

\* DELETE /api/products/:id
RouteDeleteById ==
    /\ \E id \in RouteIdArgs, fail \in MockFailures :
          \E m \in {Mock_deleteProduct(productDb, routeProducts["byId"], id,
                                       fail, clock)} :
              Routed("byId", "DELETE", id, fail, m,
                     DELETE_answered(AsProductOutcome(m)).status, <<>>)
    /\ UNCHANGED <<clock, valueObjectVars, productVars, reviewVars, reviewServiceVars,
                   productSvc, repoVars, httpVars, authVars, mockVars, laterVars>>

----------------------------------------------------------------------------
(* POST /api/auth/login                                                    *)

\* a string field of a JSON body, or undefined when the body lacks it
JsString(s) == [kind |-> "string", s |-> s]
NoString == [kind |-> "undefined", s |-> ""]

\* the users the login handler knows
mockUsers ==
    <<[id |-> "1", email |-> "john@example.com", password |-> "password123",
       name |-> "John Doe", role |-> "user",
       createdAt |-> toISOString(NewDate(0)).value,
       updatedAt |-> toISOString(NewDate(0)).value]>>

NoUser == [id |-> ""]

\* mockUsers.find(u => u.email === email), NoUser for undefined
FindUser(users, email) ==
    IF \E i \in 1..Len(users) : JsString(users[i].email) = email
    THEN users[CHOOSE i \in 1..Len(users) :
                  /\ JsString(users[i].email) = email
                  /\ \A j \in 1..(i - 1) : JsString(users[j].email) # email]
    ELSE NoUser

AuthResponse(status, error, user, token) ==
    [status |-> status, error |-> error, user |-> user, token |-> token]

NoAuthResponse == AuthResponse(0, "", NoUser, "")

\* the login handler, were it to accept any password of a known user
login_found_anyPassword(user, password) ==
    IF user = NoUser
    THEN AuthResponse(401, "Invalid credentials", NoUser, "")
    ELSE AuthResponse(200, "",
             [id |-> user.id, email |-> user.email, name |-> user.name,
              role |-> user.role, createdAt |-> user.createdAt,
              updatedAt |-> user.updatedAt],
             "mock-jwt-token")

\* the login handler once the user has been looked up
login_found(user, password) ==
    IF user = NoUser \/ JsString(user.password) # password
    THEN AuthResponse(401, "Invalid credentials", NoUser, "")
    ELSE AuthResponse(200, "",
             [id |-> user.id, email |-> user.email, name |-> user.name,
              role |-> user.role, createdAt |-> user.createdAt,
              updatedAt |-> user.updatedAt],
             "mock-jwt-token")

\* POST /api/auth/login with body {email, password}; a body that is not a
\* JSON object makes request.json() or the destructuring throw
login(parsed, email, password) ==
    IF ~parsed
    THEN AuthResponse(500, "Internal server error", NoUser, "")
    ELSE login_found(FindUser(mockUsers, email), password)

EmailInputs ==
    {JsString("john@example.com"), JsString("John@example.com"), NoString}

PasswordInputs ==
    {JsString("password123"), JsString("Password123"), NoString}

NoAuthCall ==
    [handler |-> "none", parsed |-> FALSE, email |-> NoString, password |-> NoString,
     response |-> NoAuthResponse]

\* a POST /api/auth/login request
HandleLogin ==
    /\ \/ \E email \in EmailInputs, password \in PasswordInputs :
             authCall' = [handler |-> "login", parsed |-> TRUE,
                          email |-> email, password |-> password,
                          response |-> login(TRUE, email, password)]
       \/ authCall' = [handler |-> "login", parsed |-> FALSE,
                       email |-> NoString, password |-> NoString,
                       response |-> login(FALSE, NoString, NoString)]
    /\ UNCHANGED <<clock, valueObjectVars, productVars, reviewVars, reviewServiceVars,
                   productServiceVars, repoVars, httpVars, mockVars, routeVars, laterVars>>

----------------------------------------------------------------------------
(* Product with its reviews: the reviews getter, addReview, removeReview   *)

\* how many reviews the product, and an array in a caller's hands, hold at most
MaxHeld == 2

\* reviews as far as Product looks at them: their id and their productId
AggregateReviews ==
    {[id |-> <<"a">>, productId |-> <<"1">>],
     [id |-> <<"b">>, productId |-> <<"1">>],
     [id |-> <<"c">>, productId |-> <<"x">>]}

\* the product after construction: `private _reviews: Review[] = []`
InitAggregate == [id |-> <<"1">>, reviews |-> <<>>, updatedAt |-> NewDate(0)]

\* an array in a caller's hands: whether the caller has one, whether it is
\* the product's own _reviews, and its elements
NoArray == [got |-> FALSE, own |-> FALSE, items |-> <<>>]

\* the getter, were it to return _reviews itself
reviews_container(p) ==
    [got |-> TRUE, own |-> TRUE, items |-> p.reviews]

\* get reviews(): `[...this._reviews]`, a new array with the same elements
reviews(p) ==
    [got |-> TRUE, own |-> FALSE, items |-> p.reviews]

\* addReview(review)
addReview(p, r, now) ==
    IF r.productId # p.id
    THEN [ok |-> FALSE, error |-> "Review does not belong to this product", value |-> p]
    ELSE [ok |-> TRUE, error |-> "",
          value |-> [p EXCEPT !.reviews = Append(@, r), !.updatedAt = NewDate(now)]]

\* _reviews.findIndex(review => review.id === reviewId) + 1, 0 when none
IndexOfReview(list, reviewId) ==
    IF \E i \in 1..Len(list) : list[i].id = reviewId
    THEN CHOOSE i \in 1..Len(list) :
             /\ list[i].id = reviewId
             /\ \A j \in 1..(i - 1) : list[j].id # reviewId
    ELSE 0

\* array.splice(index, 1), index counted from 1
Splice(list, index) ==
    [i \in 1..(Len(list) - 1) |-> IF i < index THEN list[i] ELSE list[i + 1]]

\* array.reverse()
Reverse(list) == [i \in 1..Len(list) |-> list[Len(list) + 1 - i]]

removeReview_found(p, index, now) ==
    IF index # 0
    THEN [p EXCEPT !.reviews = Splice(@, index), !.updatedAt = NewDate(now)]
    ELSE p

\* removeReview(reviewId)
removeReview(p, reviewId, now) ==
    removeReview_found(p, IndexOfReview(p.reviews, reviewId), now)

NoAggregateCall ==
    [op |-> "none", review |-> [id |-> <<>>, productId |-> <<>>], reviewId |-> <<>>,
     threw |-> FALSE, error |-> "", before |-> <<>>]

\* the state after a call on the product: an array that is the product's
\* own container shows the product's reviews
AggregateCalled(c, p) ==
    /\ aggregate' = p
    /\ heldReviews' = IF heldReviews.own
                      THEN [heldReviews EXCEPT !.items = p.reviews]
                      ELSE heldReviews
    /\ aggregateCall' = [c EXCEPT !.before = aggregate.reviews]

\* the state after the caller changed the array it holds to items
ArrayChanged(c, items) ==
    /\ heldReviews' = [heldReviews EXCEPT !.items = items]
    /\ aggregate' = IF heldReviews.own
                    THEN [aggregate EXCEPT !.reviews = items]
                    ELSE aggregate
    /\ aggregateCall' = [c EXCEPT !.before = aggregate.reviews]

AddReview ==
    /\ Len(aggregate.reviews) < MaxHeld
    /\ \E r \in AggregateReviews :
          LET a == addReview(aggregate, r, clock)
          IN  AggregateCalled([NoAggregateCall EXCEPT !.op = "addReview", !.review = r,
                                                      !.threw = ~a.ok, !.error = a.error],
                              a.value)
    /\ UNCHANGED <<clock, valueObjectVars, productVars, reviewVars, reviewServiceVars,
                   productServiceVars, outerVars, raceVars, registerVars>>

RemoveReview ==
    /\ \E reviewId \in {r.id : r \in AggregateReviews} :
          AggregateCalled([NoAggregateCall EXCEPT !.op = "removeReview",
                                                  !.reviewId = reviewId],
                          removeReview(aggregate, reviewId, clock))
    /\ UNCHANGED <<clock, valueObjectVars, productVars, reviewVars, reviewServiceVars,
                   productServiceVars, outerVars, raceVars, registerVars>>

\* the caller reads product.reviews
GetReviews ==
    /\ heldReviews' = reviews(aggregate)
    /\ aggregateCall' = [NoAggregateCall EXCEPT !.op = "reviews",
                                                !.before = aggregate.reviews]
    /\ UNCHANGED <<clock, valueObjectVars, productVars, reviewVars, reviewServiceVars,
                   productServiceVars, outerVars, aggregate, raceVars, registerVars>>

\* the caller pushes a review onto the array it holds
CallerPushes ==
    /\ heldReviews.got
    /\ Len(heldReviews.items) < MaxHeld
    /\ \E r \in AggregateReviews :
          ArrayChanged([NoAggregateCall EXCEPT !.op = "push", !.review = r],
                       Append(heldReviews.items, r))
    /\ UNCHANGED <<clock, valueObjectVars, productVars, reviewVars, reviewServiceVars,
                   productServiceVars, outerVars, raceVars, registerVars>>

\* the caller removes an element of the array it holds
CallerSplices ==
    /\ heldReviews.got
    /\ \E index \in 1..Len(heldReviews.items) :
          ArrayChanged([NoAggregateCall EXCEPT !.op = "splice"],
                       Splice(heldReviews.items, index))
    /\ UNCHANGED <<clock, valueObjectVars, productVars, reviewVars, reviewServiceVars,
                   productServiceVars, outerVars, raceVars, registerVars>>

\* the caller reverses the array it holds
CallerReverses ==
    /\ heldReviews.got
    /\ ArrayChanged([NoAggregateCall EXCEPT !.op = "reverse"],
                    Reverse(heldReviews.items))
    /\ UNCHANGED <<clock, valueObjectVars, productVars, reviewVars, reviewServiceVars,
                   productServiceVars, outerVars, raceVars, registerVars>>

----------------------------------------------------------------------------
(* Two updateProduct calls in flight over the same repository              *)

\* the callers whose updateProduct calls run at the same time
Callers == {"a", "b"}

\* an updateProduct call: where it stands, its arguments, what its findById
\* answered, and its outcome once it has returned
NoUpdate ==
    [pc |-> "idle", id |-> <<>>, dto |-> NoUpdateProductDto, existing |-> NoProduct,
     outcome |-> NoProductOutcome]
NoUpdates == [c \in Callers |-> NoUpdate]

\* DTOs that change one field each
RaceDtos ==
    {[NoUpdateProductDto EXCEPT !.name = Present(Laptop)],
     [NoUpdateProductDto EXCEPT !.price = Num(7)]}

\* updateProduct up to the answer of `await productRepository.findById(id)`
UpdateProductFinds ==
    /\ \E c \in Callers, id \in ProductIdArgs, dto \in RaceDtos :
          /\ updates[c].pc = "idle"
          /\ updates' = [updates EXCEPT ![c] =
                            [NoUpdate EXCEPT
                                !.pc = "found", !.id = id, !.dto = dto,
                                !.existing = ProductRepoFindById(productDb, id,
                                                                 FALSE, clock)]]
    /\ UNCHANGED <<clock, valueObjectVars, productVars, reviewVars, reviewServiceVars,
                   productDb, productSvc, outerVars, aggregateVars, registerVars>>

\* updateProduct from the answer of findById on: the mutators on the product
\* it was given, then `await productRepository.save(existingProduct)`
UpdateProductSaves ==
    /\ \E c \in Callers, fail \in {f \in ProductFailures : ~f.find /\ ~f.lookup} :
          /\ updates[c].pc = "found"
          /\ LET o == updateProduct_found(productDb, updates[c].dto,
                                          updates[c].existing, fail, clock)
             IN  /\ productDb' = o.db
                 /\ updates' = [updates EXCEPT ![c].pc = "done", ![c].outcome = o]
    /\ UNCHANGED <<clock, valueObjectVars, productVars, reviewVars, reviewServiceVars,
                   productSvc, outerVars, aggregateVars, registerVars>>

----------------------------------------------------------------------------
(* POST /api/auth/register and the User entity                             *)

\* how many users the register route stores at most
MaxUsers == 3

\* emailRegex.test(email) for /^[^\s@]+@[^\s@]+\.[^\s@]+$/: some "@" and a
\* later "." split the string into three non-empty parts free of white
\* space and "@"; undefined is tested as the string "undefined"
validateEmail(email) ==
    /\ email.has
    /\ \E i \in 1..Len(email.s), j \in 1..Len(email.s) :
          /\ email.s[i] = "@" /\ email.s[j] = "."
          /\ 1 < i /\ i + 1 < j /\ j < Len(email.s)
          /\ \A k \in (1..Len(email.s)) \ {i} :
                email.s[k] \notin Whitespace \cup {"@"}

NoStoredUser ==
    [id |-> <<>>, email |-> <<>>, name |-> <<>>, role |-> "", createdAt |-> InvalidDate]

\* User.create(id, email, name): the constructor and validateUser
UserCreate(id, email, name, now) ==
    IF id = <<>>
    THEN [ok |-> FALSE, error |-> "User ID is required", value |-> NoStoredUser]
    ELSE IF ~name.has \/ name.s = <<>> \/ Len(trim(name.s)) = 0
    THEN [ok |-> FALSE, error |-> "Name cannot be empty", value |-> NoStoredUser]
    ELSE IF ~validateEmail(email)
    THEN [ok |-> FALSE, error |-> "Invalid email format", value |-> NoStoredUser]
    ELSE [ok |-> TRUE, error |-> "",
          value |-> [id |-> id, email |-> email.s, name |-> name.s, role |-> "user",
                     createdAt |-> NewDate(now)]]

\* the answer of the handler and the list it leaves
Registered(status, error, user, users) ==
    [status |-> status, error |-> error, user |-> user, users |-> users]

\* the handler once the user was built, or failed to be
register_created(users, c) ==
    IF ~c.ok THEN Registered(500, "Internal server error", NoStoredUser, users)
    ELSE Registered(201, "", c.value, Append(users, c.value))

\* the handler, were it not to look for the e-mail among the stored users
register_parsed_unchecked(users, body, uuid, now) ==
    register_created(users, UserCreate(uuid, body.email, body.name, now))

\* the handler once request.json() has answered with the body
register_parsed(users, body, uuid, now) ==
    IF \E i \in 1..Len(users) : body.email.has /\ users[i].email = body.email.s
    THEN Registered(400, "Email already registered", NoStoredUser, users)
    ELSE register_created(users, UserCreate(uuid, body.email, body.name, now))

\* POST(request) from the answer of request.json() on
register(users, body, uuid, now) ==
    IF ~body.parsed
    THEN Registered(500, "Internal server error", NoStoredUser, users)
    ELSE register_parsed(users, body, uuid, now)

\* the requests that may be in flight at the same time
Requests == {"p", "q"}

Ann == <<"a", "@", "b", ".", "c">>
Cy == <<"c", "@", "b", ".", "c">>

RegisterBody(parsed, email, name) ==
    [pending |-> TRUE, parsed |-> parsed, email |-> email, name |-> name]
NoRegisterBody == [pending |-> FALSE, parsed |-> FALSE, email |-> Absent, name |-> Absent]

\* well-formed bodies, bodies with one field missing or invalid, and a body
\* that is not JSON
RegisterBodies ==
    {RegisterBody(TRUE, Present(Ann), Present(<<"J">>)),
     RegisterBody(TRUE, Present(Cy), Present(<<"J">>)),
     RegisterBody(TRUE, Present(<<"a", "@", "b">>), Present(<<"J">>)),
     RegisterBody(TRUE, Present(<<"a", " ", "@", "b", ".", "c">>), Present(<<"J">>)),
     RegisterBody(TRUE, Absent, Present(<<"J">>)),
     RegisterBody(TRUE, Present(Ann), Present(<<" ">>)),
     RegisterBody(TRUE, Present(Cy), Absent),
     RegisterBody(FALSE, Absent, Absent)}

\* the requests awaiting request.json(), and the request answered last
\* with the list before it and its answer
NoRegistrations ==
    [inFlight |-> [r \in Requests |-> NoRegisterBody],
     body |-> NoRegisterBody,
     before |-> <<>>,
     response |-> Registered(0, "", NoStoredUser, <<>>)]

\* a request arrives: the handler runs up to `await request.json()`
RegisterArrives ==
    /\ \E r \in Requests, body \in RegisterBodies :
          /\ ~registrations.inFlight[r].pending
          /\ registrations' = [registrations EXCEPT !.inFlight[r] = body]
    /\ UNCHANGED <<clock, valueObjectVars, productVars, reviewVars, reviewServiceVars,
                   productServiceVars, outerVars, aggregateVars, raceVars,
                   registeredUsers>>

\* request.json() has answered: the handler runs to its end
RegisterAnswers ==
    /\ Len(registeredUsers) < MaxUsers
    /\ \E r \in Requests :
          /\ registrations.inFlight[r].pending
          /\ LET a == register(registeredUsers, registrations.inFlight[r],
                               Uuid(Len(registeredUsers) + 1), clock)
             IN  /\ registeredUsers' = a.users
                 /\ registrations' =
                       [inFlight |-> [registrations.inFlight EXCEPT ![r] = NoRegisterBody],
                        body |-> registrations.inFlight[r],
                        before |-> registeredUsers,
                        response |-> a]
    /\ UNCHANGED <<clock, valueObjectVars, productVars, reviewVars, reviewServiceVars,
                   productServiceVars, outerVars, aggregateVars, raceVars>>

----------------------------------------------------------------------------
(* Specifications *)

\* Each specification constructs the part of the program it is about; the
\* variables of the other parts hold nothing and never change.
Idle == <<>>

\* the variables outside `live` hold nothing
Rest(live) ==
    /\ IF "categoryCall" \in live THEN TRUE ELSE categoryCall = Idle
    /\ IF "ratingCall" \in live THEN TRUE ELSE ratingCall = Idle
    /\ IF "product" \in live THEN TRUE ELSE product = Idle
    /\ IF "call" \in live THEN TRUE ELSE call = Idle
    /\ IF "review" \in live THEN TRUE ELSE review = Idle
    /\ IF "reviewCall" \in live THEN TRUE ELSE reviewCall = Idle
    /\ IF "reviewDb" \in live THEN TRUE ELSE reviewDb = Idle
    /\ IF "reviewSvc" \in live THEN TRUE ELSE reviewSvc = Idle
    /\ IF "nextReviewId" \in live THEN TRUE ELSE nextReviewId = Idle
    /\ IF "eventBus" \in live THEN TRUE ELSE eventBus = Idle
    /\ IF "productDb" \in live THEN TRUE ELSE productDb = Idle
    /\ IF "productSvc" \in live THEN TRUE ELSE productSvc = Idle
    /\ IF "repoCall" \in live THEN TRUE ELSE repoCall = Idle
    /\ IF "httpCall" \in live THEN TRUE ELSE httpCall = Idle
    /\ IF "authCall" \in live THEN TRUE ELSE authCall = Idle
    /\ IF "mockProducts" \in live THEN TRUE ELSE mockProducts = Idle
    /\ IF "mockCall" \in live THEN TRUE ELSE mockCall = Idle
    /\ IF "routeProducts" \in live THEN TRUE ELSE routeProducts = Idle
    /\ IF "routeCall" \in live THEN TRUE ELSE routeCall = Idle
    /\ IF "aggregate" \in live THEN TRUE ELSE aggregate = Idle
    /\ IF "heldReviews" \in live THEN TRUE ELSE heldReviews = Idle
    /\ IF "aggregateCall" \in live THEN TRUE ELSE aggregateCall = Idle
    /\ IF "updates" \in live THEN TRUE ELSE updates = Idle
    /\ IF "registeredUsers" \in live THEN TRUE ELSE registeredUsers = Idle
    /\ IF "registrations" \in live THEN TRUE ELSE registrations = Idle

\* a Product yet to be constructed
Init ==
    /\ clock = 0
    /\ product = NoProduct
    /\ call = NoCall
    /\ Rest({"product", "call"})

\* one Product, from its construction through its mutators
Next ==
    \/ Tick
    \/ Create
    \/ FromPrimitives
    \/ UpdateStock
    \/ UpdatePrice
    \/ UpdateDetails

Spec == Init /\ [][Next]_vars

\* no value object constructed yet
InitValueObjects ==
    /\ clock = 0
    /\ categoryCall = InitCategoryCall
    /\ ratingCall = InitRatingCall
    /\ Rest({"categoryCall", "ratingCall"})

\* construction of the value objects
NextValueObjects ==
    \/ ConstructCategory
    \/ ConstructRating

SpecValueObjects == InitValueObjects /\ [][NextValueObjects]_vars

\* a Review yet to be constructed
InitReview ==
    /\ clock = 0
    /\ review = NoReview
    /\ reviewCall = NoReviewCall
    /\ Rest({"review", "reviewCall"})

\* one Review, from its construction through its mutators
NextReview ==
    \/ Tick
    \/ CreateReviewEntity
    \/ ReviewEntityFromPrimitives
    \/ UpdateComment
    \/ UpdateRating

SpecReview == InitReview /\ [][NextReview]_vars

\* ReviewService, constructed with or without an EventBus, handling requests

\* a ReviewService constructed with or without an event bus
InitReviewService ==
    /\ clock = 0
    /\ reviewDb = InitReviewDb
    /\ reviewSvc = NoReviewSvc
    /\ nextReviewId = 0
    /\ eventBus \in BOOLEAN
    /\ Rest({"reviewDb", "reviewSvc", "nextReviewId", "eventBus"})

NextReviewService ==
    \/ CreateReview
    \/ UpdateReview
    \/ DeleteReview

SpecReviewService == InitReviewService /\ [][NextReviewService]_vars

\* an ApiProductRepository and the remote API
InitProductRepository ==
    /\ clock = 0
    /\ productDb = InitProductDb
    /\ repoCall = NoRepoCall
    /\ Rest({"productDb", "repoCall"})

\* ApiProductRepository serving calls
NextProductRepository ==
    \/ RepoFindById
    \/ RepoFindAll
    \/ RepoFindByCategory
    \/ RepoSave
    \/ RepoDelete

SpecProductRepository == InitProductRepository /\ [][NextProductRepository]_vars

\* the route modules over a ProductService, and the login route
InitHttp ==
    /\ clock = 0
    /\ productDb = InitProductDb
    /\ httpCall = NoHttpCall
    /\ authCall = NoAuthCall
    /\ Rest({"productDb", "httpCall", "authCall"})

\* the HTTP handlers serving requests
NextHttp ==
    \/ HandleGet
    \/ HandlePut
    \/ HandleDelete
    \/ HandlePost
    \/ HandleLogin

SpecHttp == InitHttp /\ [][NextHttp]_vars

\* one mock-data ProductService and the remote API
InitMockProductService ==
    /\ clock = 0
    /\ productDb = InitProductDb
    /\ mockProducts = InitMockProducts
    /\ mockCall = NoMockCall
    /\ Rest({"productDb", "mockProducts", "mockCall"})

\* requests to the mock-data ProductService, and callers using what it returns
NextMockProductService ==
    \/ MockGetProductById
    \/ MockGetAllProducts
    \/ MockGetProductsByCategory
    \/ MockCreateProduct
    \/ MockUpdateProduct
    \/ MockDeleteProduct
    \/ CallerUpdatesPrice

SpecMockProductService == InitMockProductService /\ [][NextMockProductService]_vars

\* the two route modules, each with its mock-data ProductService
InitRoutes ==
    /\ clock = 0
    /\ productDb = InitProductDb
    /\ routeProducts = InitRouteProducts
    /\ routeCall = NoRouteCall
    /\ Rest({"productDb", "routeProducts", "routeCall"})

\* requests to the routes, served over the mock-data ProductService
NextRoutes ==
    \/ RouteGetList
    \/ RoutePost
    \/ RouteGetById
    \/ RoutePutById
    \/ RouteDeleteById

SpecRoutes == InitRoutes /\ [][NextRoutes]_vars

\* a Product without reviews and a caller without an array
InitReviewedProduct ==
    /\ clock = 0
    /\ aggregate = InitAggregate
    /\ heldReviews = NoArray
    /\ aggregateCall = NoAggregateCall
    /\ Rest({"aggregate", "heldReviews", "aggregateCall"})

\* one Product and its reviews, and a caller with the array the getter gave
NextAggregate ==
    \/ AddReview
    \/ RemoveReview
    \/ GetReviews
    \/ CallerPushes
    \/ CallerSplices
    \/ CallerReverses

SpecAggregate == InitReviewedProduct /\ [][NextAggregate]_vars

\* the remote API and two callers about to call updateProduct
InitConcurrentUpdates ==
    /\ clock = 0
    /\ productDb = InitProductDb
    /\ updates = NoUpdates
    /\ Rest({"productDb", "updates"})

\* two updateProduct calls, their steps interleaved at the awaits
NextConcurrentUpdates ==
    \/ Tick
    \/ UpdateProductFinds
    \/ UpdateProductSaves

SpecConcurrentUpdates == InitConcurrentUpdates /\ [][NextConcurrentUpdates]_vars

\* the register route with no user stored
InitRegister ==
    /\ clock = 0
    /\ registeredUsers = <<>>
    /\ registrations = NoRegistrations
    /\ Rest({"registeredUsers", "registrations"})

\* requests to /api/auth/register, their steps interleaved at the await
NextRegister ==
    \/ RegisterArrives
    \/ RegisterAnswers

SpecRegister == InitRegister /\ [][NextRegister]_vars

\* a ProductService over the remote API
InitProductService ==
    /\ clock = 0
    /\ productDb = InitProductDb
    /\ productSvc = NoProductSvc
    /\ Rest({"productDb", "productSvc"})

\* ProductService handling requests
NextProductService ==
    \/ UpdateProduct
    \/ DeleteProduct
    \/ GetProductById
    \/ GetAllProducts
    \/ GetProductsByCategory
    \/ CreateProduct

SpecProductService == InitProductService /\ [][NextProductService]_vars

----------------------------------------------------------------------------
(* Properties of the Product entity *)

Mutators == {"updateStock", "updatePrice", "updateDetails"}
Constructions == {"create", "fromPrimitives"}

\* C1: whatever calls were made on a Product, successful or failing, inStock
\* is true exactly when stockQuantity > 0; every operation that changes
\* stockQuantity recomputes inStock.
C1_InStockIffPositiveStock ==
    product.exists => (product.inStock <=> JsGt(product.stockQuantity, Num(0)))

\* updateStock has acted and flipped inStock together with stockQuantity
C1_Witness ==
    /\ product.exists
    /\ call.op = "updateStock" /\ ~call.threw
    /\ call.before.inStock /\ ~product.inStock

\* C2: every Product that exists has price >= 0, stockQuantity >= 0, a
\* non-empty id and a name that is non-empty after trimming.
C2_ProductAlwaysValid ==
    product.exists =>
        /\ JsGe(product.price, Num(0))
        /\ JsGe(product.stockQuantity, Num(0))
        /\ Len(product.id) > 0
        /\ ~IsBlank(product.name)

\* the arguments of a construction other than price and stockQuantity are valid
OtherArgsValid(args) ==
    /\ Len(args.id) > 0
    /\ \E i \in 1..Len(args.name) : args.name[i] \notin Whitespace
    /\ \E i \in 1..Len(VALID_CATEGORIES) : toLowerCase(args.category) = VALID_CATEGORIES[i]

\* C3: a price < 0 or a stockQuantity < 0 is rejected with a validation
\* error by construction (create, fromPrimitives) and by updatePrice and
\* updateStock; a price >= 0 and a stockQuantity >= 0, 0 included, are
\* accepted (the other arguments of a construction being valid) and the
\* getters then return exactly the value given.
C3_NegativeRejectedNonNegativeKept ==
    /\ call.op \in Constructions =>
          /\ (JsLt(call.args.price, Num(0)) \/ JsLt(call.args.stockQuantity, Num(0)))
                => call.threw /\ call.error # "" /\ ~product.exists
          /\ (/\ JsGe(call.args.price, Num(0))
              /\ JsGe(call.args.stockQuantity, Num(0))
              /\ OtherArgsValid(call.args))
                => /\ ~call.threw /\ product.exists
                   /\ product.price = call.args.price
                   /\ product.stockQuantity = call.args.stockQuantity
    /\ call.op = "updatePrice" =>
          /\ JsLt(call.args.price, Num(0))
                => call.threw /\ call.error = "Price cannot be negative"
          /\ JsGe(call.args.price, Num(0))
                => ~call.threw /\ product.price = call.args.price
    /\ call.op = "updateStock" =>
          /\ JsLt(call.args.stockQuantity, Num(0))
                => call.threw /\ call.error = "Stock quantity cannot be negative"
          /\ JsGe(call.args.stockQuantity, Num(0))
                => ~call.threw /\ product.stockQuantity = call.args.stockQuantity

\* updatePrice(0) has been accepted on a product whose price was not 0
C3_Witness ==
    /\ call.op = "updatePrice" /\ ~call.threw
    /\ call.args.price = Num(0) /\ call.before.price = Num(5)
    /\ product.price = Num(0)

\* C4: a mutator that throws leaves the product exactly as it was: name,
\* description, price, category, stockQuantity, inStock and updatedAt are
\* unchanged; updateStock with a negative quantity throws
\* "Stock quantity cannot be negative".
C4_ThrowingMutatorChangesNothing ==
    /\ (call.op \in Mutators /\ call.threw) => product = call.before
    /\ (call.op = "updateStock" /\ JsLt(call.args.stockQuantity, Num(0)))
          => call.threw /\ call.error = "Stock quantity cannot be negative"

\* updateStock(-1) has thrown on a product in stock, later than its last update
C4_Witness ==
    /\ call.op = "updateStock" /\ call.threw
    /\ call.args.stockQuantity = Num(-1)
    /\ call.before.inStock
    /\ call.before.updatedAt.valid /\ call.before.updatedAt.ms < clock

\* C7: for every Product p that exists, Product.fromPrimitives(p.toPrimitives())
\* succeeds and its toPrimitives() equals p.toPrimitives() field by field.
C7_RoundTrip ==
    product.exists =>
        LET t == toPrimitives(product)
        IN  /\ t.ok
            /\ LET r == fromPrimitives(t.value, clock)
               IN  r.ok /\ toPrimitives(r.value) = t

----------------------------------------------------------------------------
(* Properties of the value objects *)

\* equality of two strings up to the case of their letters
CaseInsensitiveEq(a, b) ==
    /\ Len(a) = Len(b)
    /\ \A i \in 1..Len(a) : UpperChar(a[i]) = UpperChar(b[i])

\* C5: new ProductCategory(s) succeeds exactly when s equals one of the ten
\* categories up to case, and the stored value is then that category in
\* lower case; every other string, the empty one included, is rejected
\* with an error.
C5_CategoryAcceptedIffListed ==
    categoryCall.called =>
        LET s == categoryCall.input
            r == categoryCall.result
            Listed == {i \in 1..Len(VALID_CATEGORIES) :
                          CaseInsensitiveEq(s, VALID_CATEGORIES[i])}
        IN  /\ r.ok <=> Listed # {}
            /\ r.ok => \A i \in Listed : r.value.value = VALID_CATEGORIES[i]
            /\ ~r.ok => r.error # ""
            /\ s = <<>> => ~r.ok

\* "Electronics" has been accepted and stored as "electronics"
C5_Witness ==
    /\ categoryCall.called
    /\ categoryCall.input = Capitalize(electronics)
    /\ categoryCall.result.ok
    /\ categoryCall.result.value.value = electronics

\* C6: new Rating(v) succeeds exactly for v in {1, 2, 3, 4, 5}; 0 and 6 are
\* rejected with "Rating must be between 1 and 5", 3.5 with "Rating must be
\* an integer"; two Ratings are equal exactly when their values are equal.
C6_RatingAcceptsOneToFive ==
    ratingCall.called =>
        LET v == ratingCall.input
            r == ratingCall.result
        IN  /\ r.ok <=> v \in {Num(n) : n \in 1..5}
            /\ r.ok => r.value.value = v
            /\ v \in {Num(0), Num(6)}
                  => ~r.ok /\ r.error = "Rating must be between 1 and 5"
            /\ v = NumHalf(3) => ~r.ok /\ r.error = "Rating must be an integer"
            /\ (r.ok /\ ratingCall.hasPrev)
                  => (RatingEquals(r.value, ratingCall.prev)
                         <=> r.value.value = ratingCall.prev.value)

\* 3.5 has been rejected after a Rating was constructed
C6_Witness ==
    /\ ratingCall.called /\ ratingCall.hasPrev
    /\ ratingCall.input = NumHalf(3)
    /\ ~ratingCall.result.ok

----------------------------------------------------------------------------
(* Properties of the Review entity and of ReviewService *)

\* a rating that is a whole number outside 1..5
OutOfRange(x) == x.kind = "num" /\ ~x.half /\ (x.int < 1 \/ x.int > 5)

\* a string with a character that is not white space, of at most max characters
NonEmptyAtMost(s, max) ==
    /\ \E i \in 1..Len(s) : s[i] \notin Whitespace
    /\ Len(s) <= max

\* C8: ReviewService.updateReview with an out-of-range rating (7) on a
\* review that was found throws ("Rating must be between 1 and 5" when the
\* comment of the DTO does not fail first), the review keeps its prior rating
\* and nothing is written to the repository.
C8_OutOfRangeRatingKeepsReview ==
    (/\ reviewSvc.op = "updateReview"
     /\ reviewSvc.outcome.found
     /\ OutOfRange(reviewSvc.dto.rating))
    =>  LET o == reviewSvc.outcome
        IN  /\ o.threw
            /\ (~reviewSvc.dto.comment.has
                   \/ NonEmptyAtMost(reviewSvc.dto.comment.s, 1000))
                  => o.error = "Rating must be between 1 and 5"
            /\ o.entityAfter.rating = o.entityBefore.rating
            /\ o.requests = <<>>
            /\ reviewDb = reviewSvc.dbBefore

\* updateReview(id, {rating: 7}) has thrown on a stored review rated 4
C8_Witness ==
    /\ reviewSvc.op = "updateReview"
    /\ reviewSvc.dto.rating = Num(7) /\ ~reviewSvc.dto.comment.has
    /\ reviewSvc.outcome.found /\ reviewSvc.outcome.threw
    /\ reviewSvc.outcome.entityBefore.rating.value = Num(4)
    /\ InDb(reviewDb, reviewSvc.id)

\* the event each operation of ReviewService reports with
EventOf ==
    [createReview |-> "review.created", updateReview |-> "review.updated",
     deleteReview |-> "review.deleted"]

\* C30: a ReviewService call publishes at most one event, the one of its
\* operation, and only after its repository write has succeeded: the call
\* did not throw, the write request was made and did not fail, and the
\* persistence holds the saved review (no review, after deleteReview).  A
\* call that throws, or that finds no review, publishes nothing.
C30_EventOnlyAfterWrite ==
    reviewSvc.op # "none" =>
        LET o == reviewSvc.outcome
        IN  /\ Len(o.published) <= 1
            /\ o.published # <<>> =>
                  /\ o.published = <<EventOf[reviewSvc.op]>>
                  /\ eventBus /\ ~o.threw
                  /\ ~reviewSvc.fail.write
                  /\ Len(o.requests) = 1
                  /\ o.requests[1] \in
                        (IF reviewSvc.op = "deleteReview" THEN {"DELETE"}
                         ELSE {"PUT", "POST"})
                  /\ reviewDb # reviewSvc.dbBefore \/ reviewSvc.op = "updateReview"
                  /\ InDb(reviewDb, reviewSvc.id) <=> reviewSvc.op # "deleteReview"
            /\ o.threw => o.published = <<>>
            /\ (reviewSvc.op \in {"updateReview", "deleteReview"} /\ ~o.found) =>
                  o.published = <<>>

\* updateReview has saved the review and published review.updated
C30_Witness ==
    /\ reviewSvc.op = "updateReview"
    /\ reviewSvc.outcome.published = <<"review.updated">>
    /\ reviewSvc.outcome.requests = <<"PUT">>
    /\ reviewDb # reviewSvc.dbBefore

\* the arguments of a Review construction break none of the rules
ReviewArgsValid(args) ==
    /\ Len(args.id) > 0 /\ Len(args.productId) > 0
    /\ args.rating \in {Num(n) : n \in 1..5}
    /\ NonEmptyAtMost(args.comment, 1000)
    /\ NonEmptyAtMost(args.authorName, 100)

\* C9: every Review that exists has a comment that is non-empty after
\* trimming and at most 1000 characters long, an authorName that is non-empty
\* after trimming and at most 100 characters long, and a rating in 1..5;
\* create and fromPrimitives reject every violation with an error ("Comment
\* cannot be empty" for an empty comment, "Author name cannot be empty" for an
\* empty author, the rest being valid); updateComment and updateRating keep
\* it so, and a rejected updateComment leaves the comment unchanged.
C9_ReviewAlwaysValid ==
    /\ review.exists =>
          /\ NonEmptyAtMost(review.comment, 1000)
          /\ NonEmptyAtMost(review.authorName, 100)
          /\ review.rating.value \in {Num(n) : n \in 1..5}
    /\ reviewCall.op \in Constructions =>
          /\ ~ReviewArgsValid(reviewCall.args)
                => reviewCall.threw /\ reviewCall.error # "" /\ ~review.exists
          /\ ReviewArgsValid([reviewCall.args EXCEPT !.comment = Great])
                /\ reviewCall.args.comment = <<>>
                => reviewCall.error = "Comment cannot be empty"
          /\ ReviewArgsValid([reviewCall.args EXCEPT !.authorName = John])
                /\ reviewCall.args.authorName = <<>>
                => reviewCall.error = "Author name cannot be empty"
    /\ reviewCall.op = "updateComment" =>
          /\ ~NonEmptyAtMost(reviewCall.args.comment, 1000) => reviewCall.threw
          /\ reviewCall.threw => review = reviewCall.before
          /\ ~reviewCall.threw => review.comment = reviewCall.args.comment

\* updateComment with 1001 characters has been rejected on a review, later
\* than its last update
C9_Witness ==
    /\ review.exists
    /\ reviewCall.op = "updateComment" /\ reviewCall.threw
    /\ Len(reviewCall.args.comment) = 1001
    /\ review.comment = Great
    /\ review.updatedAt.valid /\ review.updatedAt.ms < clock

----------------------------------------------------------------------------
(* Properties of ProductService *)

\* C10: when ProductService.updateProduct finds the product and returns it,
\* every field present in the DTO (a price or stockQuantity of 0 and an
\* empty description included) has the DTO's value, the category in lower
\* case, and every field absent from the DTO has the value it had before.
C10_UpdateChangesExactlyPresentFields ==
    (productSvc.op = "updateProduct" /\ productSvc.outcome.found
        /\ ~productSvc.outcome.threw) =>
    LET dto == productSvc.dto
        before == productSvc.outcome.entityBefore
        after == productSvc.outcome.entityAfter
    IN  /\ after.name = IF dto.name.has THEN dto.name.s ELSE before.name
        /\ after.description =
              IF dto.description.has THEN dto.description.s ELSE before.description
        /\ after.category.value =
              IF dto.category.has THEN toLowerCase(dto.category.s)
              ELSE before.category.value
        /\ after.price = IF dto.price.kind # "undefined" THEN dto.price ELSE before.price
        /\ after.stockQuantity =
              IF dto.stockQuantity.kind # "undefined" THEN dto.stockQuantity
              ELSE before.stockQuantity

\* what findById answered in the last ProductService call
Resolved ==
    ProductRepoFindById(productSvc.dbBefore, productSvc.id, productSvc.fail.find,
                        clock).exists

\* C11: when the id given to ProductService.updateProduct does not resolve to
\* a product, the call returns null without throwing, issues no save request
\* and leaves every stored product as it was.
C11_UnresolvedUpdateReturnsNull ==
    (productSvc.op = "updateProduct" /\ ~Resolved) =>
        /\ ~productSvc.outcome.threw
        /\ productSvc.outcome.returned = "null"
        /\ productSvc.outcome.requests = <<>>
        /\ productSvc.outcome.db = productSvc.dbBefore
        /\ productDb = productSvc.dbBefore

\* updateProduct has been called with a price for an id the API does not
\* hold, while it holds product "1"
C11_Witness ==
    /\ productSvc.op = "updateProduct" /\ productSvc.id = <<"x">>
    /\ productSvc.dto.price = Num(0)
    /\ ~productSvc.fail.find
    /\ productSvc.outcome.returned = "null"
    /\ InDb(productDb, <<"1">>)

\* C12: ProductService.deleteProduct looks the product up first; when the
\* lookup finds nothing it returns false without throwing and without a
\* DELETE request; when it finds the product it issues exactly one DELETE
\* request, for that id, and returns true unless that request fails, in which
\* case the repository's error is thrown.
C12_DeleteLooksUpFirst ==
    (productSvc.op = "deleteProduct") =>
        IF ~Resolved
        THEN /\ ~productSvc.outcome.threw
             /\ productSvc.outcome.returned = "false"
             /\ productSvc.outcome.requests = <<>>
             /\ productDb = productSvc.dbBefore
        ELSE /\ productSvc.outcome.requests = <<"DELETE">>
             /\ IF productSvc.fail.write
                THEN /\ productSvc.outcome.threw
                     /\ productDb = productSvc.dbBefore
                ELSE /\ ~productSvc.outcome.threw
                     /\ productSvc.outcome.returned = "true"
                     /\ ~InDb(productDb, productSvc.id)
                     /\ \A i \in DOMAIN productDb \ {productSvc.id} :
                            productDb[i] = productSvc.dbBefore[i]

\* deleteProduct has returned true for product "1", which is gone
C12_Witness ==
    /\ productSvc.op = "deleteProduct" /\ productSvc.id = <<"1">>
    /\ InDb(productSvc.dbBefore, <<"1">>)
    /\ productSvc.outcome.returned = "true"
    /\ ~InDb(productDb, <<"1">>)

\* the messages of the validation errors of Product and ProductCategory
ValidationErrors ==
    {"Category cannot be empty", "Invalid category", "Product ID is required",
     "Product name cannot be empty", "Price cannot be negative",
     "Stock quantity cannot be negative"}

\* the operations of ProductService
ServiceOps ==
    {"getProductById", "getAllProducts", "getProductsByCategory",
     "createProduct", "updateProduct", "deleteProduct"}

\* C21 as stated: each ProductService operation makes at most one
\* repository call.
C21_AtMostOneRepositoryCall ==
    (productSvc.op \in ServiceOps) => Len(productSvc.outcome.calls) <= 1

\* C21 as amended: each ProductService operation makes its repository calls
\* one after the other, at most two of them: the reads make one call
\* (getProductsByCategory none for an invalid category), createProduct
\* calls save unless validation fails, and updateProduct and deleteProduct
\* call findById and then, when the product was found and validation
\* passed, save or delete.
C21_AtMostOneReadThenOneWrite ==
    LET calls == productSvc.outcome.calls
    IN  /\ (productSvc.op \in ServiceOps) => Len(calls) <= 2
        /\ (productSvc.op = "getProductById") => calls = <<"findById">>
        /\ (productSvc.op = "getAllProducts") => calls = <<"findAll">>
        /\ (productSvc.op = "getProductsByCategory") =>
              calls \in {<<>>, <<"findByCategory">>}
        /\ (productSvc.op = "createProduct") => calls \in {<<>>, <<"save">>}
        /\ (productSvc.op = "updateProduct") =>
              calls = IF productSvc.outcome.found
                         /\ (productSvc.outcome.threw =>
                                productSvc.outcome.error \notin ValidationErrors)
                      THEN <<"findById", "save">> ELSE <<"findById">>
        /\ (productSvc.op = "deleteProduct") =>
              calls = IF productSvc.outcome.found
                      THEN <<"findById", "delete">> ELSE <<"findById">>

\* updateProduct has found its product and saved it: two repository calls
C21_Witness ==
    /\ productSvc.op = "updateProduct"
    /\ ~productSvc.outcome.threw
    /\ productSvc.outcome.calls = <<"findById", "save">>

\* a category name outside the allowed categories, whatever its case
UnlistedCategory(s) ==
    \A i \in 1..Len(VALID_CATEGORIES) : ~CaseInsensitiveEq(s, VALID_CATEGORIES[i])

\* a number below zero
Negative(n) == n.kind = "num" /\ n.int < 0

\* the last ProductService call was given a value the domain rejects
InvalidInbound ==
    \/ /\ productSvc.op = "getProductsByCategory"
       /\ UnlistedCategory(productSvc.category)
    \/ /\ productSvc.op = "createProduct"
       /\ \/ UnlistedCategory(productSvc.createDto.category)
          \/ Negative(productSvc.createDto.price)
          \/ Negative(productSvc.createDto.stockQuantity)
          \/ trim(productSvc.createDto.name) = <<>>
    \/ /\ productSvc.op = "updateProduct"
       /\ productSvc.outcome.found
       /\ \/ productSvc.dto.category.has /\ UnlistedCategory(productSvc.dto.category.s)
          \/ Negative(productSvc.dto.price)
          \/ Negative(productSvc.dto.stockQuantity)
          \/ productSvc.dto.name.has /\ productSvc.dto.name.s = <<>>

\* C23: a ProductService call given an invalid inbound value
\* (getProductsByCategory with a name outside the allowed categories,
\* createProduct with an invalid category, price, stock or name, updateProduct
\* of an existing product with an invalid category, price, stock or an empty
\* name) fails with the validation error instead of returning a result.
C23_ValidationErrorsPropagate ==
    InvalidInbound =>
        /\ productSvc.outcome.threw
        /\ productSvc.outcome.error \in ValidationErrors

----------------------------------------------------------------------------
(* Properties of ApiProductRepository *)

\* C13: an ApiProductRepository operation whose fetch fails (transport error
\* or non-OK answer other than 404 on findById) throws; it never answers
\* null or an empty list instead.
C13_RepositoryFailuresAreReported ==
    (repoCall.op # "none" /\ repoCall.fetchFails) => repoCall.threw

\* C14: ApiProductRepository.save issues a PUT exactly when the product's id
\* exists in persistence and a POST exactly when it does not, also when the
\* existence lookup fails.
C14_SaveReplacesIffExists ==
    (repoCall.op = "save" /\ repoCall.requests # <<>>) =>
        /\ repoCall.requests = <<"PUT">> <=> InDb(repoCall.dbBefore, repoCall.id)
        /\ repoCall.requests = <<"POST">> <=> ~InDb(repoCall.dbBefore, repoCall.id)

----------------------------------------------------------------------------
(* Properties of the HTTP handlers *)

\* what findById answered to the service in the last request
HttpResolved ==
    ProductRepoFindById(httpCall.dbBefore, httpCall.id, httpCall.fail.find,
                        clock).exists

\* C15: GET, PUT and DELETE /api/products/:id answer 404 exactly when the id
\* does not resolve to a product, with the body {error: "Product not found"};
\* when it resolves and nothing fails they answer 200, with the product DTO
\* (GET: the stored product, PUT: the updated one, which is then the stored
\* one) or, for DELETE, {message: "Product deleted successfully"}.
C15_NotFoundIs404 ==
    (httpCall.handler \in {"GET", "PUT", "DELETE"}) =>
        /\ httpCall.response.status = 404 <=> ~HttpResolved
        /\ httpCall.response.status = 404 =>
              httpCall.response =
                  Response(404, "Product not found", "", NoPrimitives)
        /\ (HttpResolved /\ ~httpCall.outcome.threw) =>
              /\ httpCall.response.status = 200
              /\ httpCall.response.error = ""
              /\ httpCall.handler = "GET" =>
                    httpCall.response.body = httpCall.dbBefore[httpCall.id]
              /\ httpCall.handler = "PUT" =>
                    /\ httpCall.response.body.id = httpCall.id
                    /\ httpCall.response.body = productDb[httpCall.id]
              /\ httpCall.handler = "DELETE" =>
                    httpCall.response =
                        Response(200, "", "Product deleted successfully", NoPrimitives)

\* GET for an id the API does not hold has been answered 404 while the API
\* was reachable and held product "1"
C15_Witness ==
    /\ httpCall.handler = "GET" /\ httpCall.id = <<"x">>
    /\ ~httpCall.fail.find
    /\ InDb(httpCall.dbBefore, <<"1">>)
    /\ httpCall.response.status = 404

\* a required string field is missing from the body: absent or empty
Missing(x) == ~x.has \/ x.s = <<>>

\* C16: POST /api/products answers 400 {error: "Missing required fields"}
\* exactly when name, price or category is missing from the body; a body with
\* a name, a price >= 0 (0 included) and a listed category is, when the save
\* succeeds, answered 201 with the created product, description '' and
\* stockQuantity 0 when absent.
C16_PostRejectsExactlyMissingFields ==
    (httpCall.handler = "POST") =>
        LET body == httpCall.body
            r == httpCall.response
            valid == /\ body.name.has /\ ~IsBlank(body.name.s)
                     /\ body.price.kind = "num" /\ JsGe(body.price, Num(0))
                     /\ body.category.has /\ validateCategory(body.category.s).ok
                     /\ body.stockQuantity.kind = "num" =>
                            JsGe(body.stockQuantity, Num(0))
        IN  /\ (r.status = 400 /\ r.error = "Missing required fields")
                  <=> (Missing(body.name) \/ body.price.kind \in {"undefined", "null"}
                       \/ Missing(body.category))
            /\ (valid /\ ~httpCall.fail.write) =>
                  /\ r.status = 201
                  /\ r.body.name = body.name.s
                  /\ r.body.price = body.price
                  /\ r.body.category = toLowerCase(body.category.s)
                  /\ r.body.description =
                        IF body.description.has THEN body.description.s ELSE <<>>
                  /\ r.body.stockQuantity =
                        IF body.stockQuantity.kind = "undefined" THEN Num(0)
                        ELSE body.stockQuantity

\* C17: a throw of the service layer that reaches a handler is answered with
\* the status of its kind: 400 for a validation error, 500 for any other
\* failure.
C17_ThrowsMappedByKind ==
    (httpCall.handler # "none" /\ httpCall.outcome.threw) =>
        httpCall.response.status =
            IF httpCall.outcome.error \in ValidationErrors THEN 400 ELSE 500

\* C18: POST /api/auth/login with a JSON object as body answers 401
\* {error: "Invalid credentials"} exactly when no stored user has the given
\* e-mail or the stored password differs from the given one; otherwise it
\* answers 200 with that user's DTO and a token; no response of the handler
\* carries a password field.
C18_LoginRejectsExactlyBadCredentials ==
    (authCall.handler = "login") =>
        /\ "password" \notin DOMAIN authCall.response.user
        /\ authCall.parsed =>
              LET r == authCall.response
                  matches(u) == /\ JsString(u.email) = authCall.email
                                /\ JsString(u.password) = authCall.password
                  good == \E i \in 1..Len(mockUsers) : matches(mockUsers[i])
              IN  /\ (r.status = 401 /\ r.error = "Invalid credentials") <=> ~good
                  /\ good =>
                        /\ r.status = 200 /\ r.error = ""
                        /\ r.token = "mock-jwt-token" /\ r.token # authCall.password.s
                        /\ DOMAIN r.user =
                              {"id", "email", "name", "role", "createdAt", "updatedAt"}
                        /\ \E i \in 1..Len(mockUsers) :
                              /\ matches(mockUsers[i])
                              /\ \A f \in DOMAIN r.user : r.user[f] = mockUsers[i][f]

\* a login with the e-mail of a stored user and another password has been
\* answered 401
C18_Witness ==
    /\ authCall.handler = "login"
    /\ authCall.email = JsString("john@example.com")
    /\ authCall.password = JsString("Password123")
    /\ authCall.response.status = 401

----------------------------------------------------------------------------
(* Properties of the mock-data ProductService                              *)

\* C19: in the mock-data ProductService no failure of a repository call
\* reaches the caller: a request throws only validation errors.  When the
\* read fails, getProductById answers the list's product with that id (null
\* when it has none), getAllProducts the list, and getProductsByCategory
\* the list's products of that category; when save fails, createProduct
\* appends the new product to the list and returns it, and updateProduct
\* returns the updated product, which is then the list's entry with that id;
\* when delete fails, deleteProduct removes the entries with that id and
\* returns true.
C19_RepositoryFailureFallsBackToList ==
    LET c == mockCall
        o == mockCall.outcome
        before == mockCall.listBefore
        index == IndexOfId(mockCall.listBefore, mockCall.id)
    IN  /\ (c.op \notin {"none", "caller"} /\ o.threw) => o.error \in ValidationErrors
        /\ (c.op = "getProductById" /\ c.fail.find) =>
              /\ ~o.threw /\ o.list = before
              /\ IF index = 0
                 THEN o.returned = "null"
                 ELSE /\ o.returned = "product"
                      /\ Entities(o.held) = <<before[index]>>
        /\ (c.op = "getAllProducts" /\ c.fail.find) =>
              /\ ~o.threw /\ o.list = before
              /\ Entities(o.held) = before
        /\ (c.op = "getProductsByCategory" /\ c.fail.find) =>
              /\ ~o.threw /\ o.list = before
              /\ Entities(o.held) =
                    SelectSeq(before,
                              LAMBDA p : CaseInsensitiveEq(p.category.value, c.category))
        /\ (c.op = "createProduct" /\ o.writeThrew) =>
              /\ ~o.threw /\ o.returned = "product"
              /\ Len(o.held) = 1
              /\ o.held[1].entity.id = c.id
              /\ o.held[1].entity.name = c.createDto.name
              /\ o.list = Append(before, o.held[1].entity)
        /\ (c.op = "updateProduct" /\ o.writeThrew) =>
              /\ ~o.threw /\ o.returned = "product"
              /\ Len(o.held) = 1
              /\ o.held[1].entity.id = c.id
              /\ o.held[1].entity.price = c.dto.price
              /\ Len(o.list) = Len(before)
              /\ \A i \in 1..Len(before) :
                    o.list[i] = IF i = index THEN o.held[1].entity ELSE before[i]
        /\ (c.op = "deleteProduct" /\ o.writeThrew) =>
              /\ ~o.threw /\ o.returned = "true"
              /\ o.list = SelectSeq(before, LAMBDA p : p.id # c.id)

\* createProduct has met a failing save, and the list has grown by the
\* product it returned
C19_Witness ==
    /\ mockCall.op = "createProduct"
    /\ mockCall.fail.write
    /\ mockCall.outcome.writeThrew
    /\ ~mockCall.outcome.threw
    /\ Len(mockProducts) = Len(mockCall.listBefore) + 1

\* what the repository answers to the read of the last call when it is
\* reachable
ReadAnswer ==
    LET c == mockCall
    IN  IF c.op = "getProductById"
        THEN LET r == Repository_findById(c.dbBefore, c.id, FALSE, clock)
             IN  IF r.value.exists THEN <<r.value>> ELSE <<>>
        ELSE IF c.op = "getAllProducts"
        THEN Repository_findAll(c.dbBefore, FALSE, clock).value
        ELSE Repository_findByCategory(c.dbBefore,
                 NewProductCategory(c.category).value, FALSE, clock).value

\* the last call was a read that asked the repository
ReadAsked ==
    \/ mockCall.op \in {"getProductById", "getAllProducts"}
    \/ /\ mockCall.op = "getProductsByCategory"
       /\ NewProductCategory(mockCall.category).ok

\* the list's products the read of the last call falls back to
ReadFallback ==
    LET c == mockCall
    IN  IF c.op = "getProductById"
        THEN LET index == IndexOfId(c.listBefore, c.id)
             IN  IF index = 0 THEN <<>> ELSE <<c.listBefore[index]>>
        ELSE IF c.op = "getAllProducts" THEN c.listBefore
        ELSE SelectSeq(c.listBefore,
                 LAMBDA p : CaseInsensitiveEq(p.category.value, c.category))

\* C24 as stated: a read of the mock-data ProductService whose repository
\* call succeeds returns the repository's answer as it is, an empty list or
\* an absent product included; the list is served only when the call threw.
C24_ListOnlyWhenRepositoryThrew ==
    (ReadAsked /\ ~mockCall.fail.find) =>
        Entities(mockCall.outcome.held) = ReadAnswer

\* C24: getProductById, getAllProducts and getProductsByCategory of the
\* mock-data ProductService follow one rule: they serve the list when the
\* repository call threw or answered with nothing (an absent product, an
\* empty list), and return the repository's answer as it is when it holds a
\* product or a non-empty list.
C24_ListWhenRepositoryThrewOrAnsweredNothing ==
    ReadAsked =>
        /\ ~mockCall.outcome.threw
        /\ mockCall.outcome.list = mockCall.listBefore
        /\ Entities(mockCall.outcome.held) =
              IF ~mockCall.fail.find /\ ReadAnswer # <<>>
              THEN ReadAnswer ELSE ReadFallback
        /\ mockCall.op = "getProductById" =>
              mockCall.outcome.returned =
                 IF mockCall.outcome.held = <<>> THEN "null" ELSE "product"

\* the repository answered getProductsByCategory with an empty list and
\* the list's products of the category were returned
C24_Witness ==
    /\ mockCall.op = "getProductsByCategory"
    /\ ~mockCall.fail.find
    /\ NewProductCategory(mockCall.category).ok
    /\ ReadAnswer = <<>>
    /\ mockCall.outcome.held # <<>>
    /\ \A i \in 1..Len(mockCall.outcome.held) : mockCall.outcome.held[i].alias # 0

\* C26: a read that follows a deleteProduct(id) of the mock-data service
\* that returned true does not find the product any more: getProductById(id)
\* returns null and getAllProducts() has no product with that id, whether
\* the repository's delete succeeded or failed.
C26_DeletedProductIsGone ==
    [][(mockCall.op = "deleteProduct" /\ mockCall.outcome.returned = "true") =>
          /\ (mockCall'.op = "getProductById" /\ mockCall'.id = mockCall.id) =>
                mockCall'.outcome.returned = "null"
          /\ mockCall'.op = "getAllProducts" =>
                \A i \in 1..Len(mockCall'.outcome.held) :
                    mockCall'.outcome.held[i].entity.id # mockCall.id]_vars

\* C27: an updateProduct of the mock-data service that throws because a
\* field of the DTO is invalid has changed nothing: the API and the list
\* hold what they held before the call.
C27_FailedUpdateChangesNothing ==
    (mockCall.op = "updateProduct" /\ mockCall.outcome.threw) =>
        /\ productDb = mockCall.dbBefore
        /\ mockProducts = mockCall.listBefore

\* C20: nothing the caller does with a value the service returned changes a
\* product the service holds: after the caller has called a mutator on it,
\* the service's list and the API are as they were.
C20_CallerCannotChangeStore ==
    (mockCall.op = "caller") =>
        /\ mockProducts = mockCall.listBefore
        /\ productDb = mockCall.dbBefore

----------------------------------------------------------------------------
(* Properties of the routes over the mock-data ProductService              *)

\* the ids of the products of a list
IdsOf(list) == {list[i].id : i \in 1..Len(list)}

\* C22: the fallback list is one store shared by all request handlers: a
\* product in the fallback list of the collection route (put there by POST
\* when save failed, or seeded) is found by GET, PUT and DELETE
\* /api/products/:id for its id, and GET /api/products, when it answers from
\* the fallback list, lists only products that the route by id holds too,
\* so none that was removed through DELETE /api/products/:id.
C22_FallbackListIsShared ==
    /\ (/\ routeCall.route = "byId"
        /\ routeCall.id \in IdsOf(routeCall.listsBefore["collection"]))
          => routeCall.status # 404
    /\ (/\ routeCall.route = "collection" /\ routeCall.method = "GET"
        /\ routeCall.fail.find /\ routeCall.status = 200)
          => \A i \in 1..Len(routeCall.products) :
                routeCall.products[i].id \in IdsOf(routeCall.listsBefore["byId"])

----------------------------------------------------------------------------
(* Properties of the Product with its reviews                              *)

\* C25: the array the reviews getter returns is a copy: when the caller
\* pushes onto it, removes from it or reverses it, the product's own reviews
\* stay as they were; every review the product holds has the product's id as
\* its productId; and addReview of a review of another product throws
\* "Review does not belong to this product" and adds nothing.
C25_ReviewsAreCopiedAndBelong ==
    /\ aggregateCall.op \in {"push", "splice", "reverse"} =>
          aggregate.reviews = aggregateCall.before
    /\ \A i \in 1..Len(aggregate.reviews) :
          aggregate.reviews[i].productId = aggregate.id
    /\ (aggregateCall.op = "addReview"
          /\ aggregateCall.review.productId # aggregate.id) =>
          /\ aggregateCall.threw
          /\ aggregateCall.error = "Review does not belong to this product"
          /\ aggregate.reviews = aggregateCall.before

\* the caller has pushed a review of another product onto the array it got
\* from a product that holds a review
C25_Witness ==
    /\ aggregateCall.op = "push"
    /\ aggregateCall.review.productId # aggregate.id
    /\ aggregate.reviews # <<>>
    /\ heldReviews.items = Append(aggregate.reviews, aggregateCall.review)

----------------------------------------------------------------------------
(* Properties of updateProduct calls in flight together                    *)

\* C28: no update is lost: when two updateProduct calls for the same id, one
\* that changes only the name and one that changes only the price, have
\* both returned the updated product, the persisted product has the new
\* name and the new price.
C28_NoUpdateIsLost ==
    \A a, b \in Callers :
        (/\ updates[a].pc = "done" /\ updates[b].pc = "done"
         /\ updates[a].id = updates[b].id
         /\ updates[a].dto.name.has
         /\ updates[b].dto.price.kind # "undefined"
         /\ updates[a].outcome.returned = "product"
         /\ updates[b].outcome.returned = "product") =>
            /\ productDb[updates[a].id].name = updates[a].dto.name.s
            /\ productDb[updates[a].id].price = updates[b].dto.price

----------------------------------------------------------------------------
(* Properties of POST /api/auth/register                                   *)

\* the well-formed e-mails among the inputs
WellFormedEmails == {Ann, Cy}

\* C29: the register route never stores two users with the same e-mail, and
\* stores only users with a well-formed e-mail and a name that is not
\* empty; a request whose e-mail is already registered is answered 400
\* "Email already registered" and stores nothing, and a request that is not
\* answered 201 stores nothing.
C29_RegisteredUsersAreUniqueAndValid ==
    /\ \A i, j \in 1..Len(registeredUsers) :
          i # j => registeredUsers[i].email # registeredUsers[j].email
    /\ \A i \in 1..Len(registeredUsers) :
          /\ registeredUsers[i].email \in WellFormedEmails
          /\ trim(registeredUsers[i].name) # <<>>
    /\ (/\ registrations.body.pending /\ registrations.body.parsed
        /\ registrations.body.email.has
        /\ \E i \in 1..Len(registrations.before) :
              registrations.before[i].email = registrations.body.email.s) =>
          /\ registrations.response.status = 400
          /\ registrations.response.error = "Email already registered"
    /\ (registrations.body.pending /\ registrations.response.status # 201) =>
          registrations.response.users = registrations.before

\* a second request for a registered e-mail, in flight together with the
\* first, was answered 400
C29_Witness ==
    /\ registrations.body.pending
    /\ registrations.body.email = Present(Ann)
    /\ registrations.response.status = 400
    /\ Len(registeredUsers) = 2
    /\ \E r \in Requests : registrations.inFlight[r].pending

====
